---- MODULE Spec2Model ----
(***************************************************************************)
(* Talos telemetry: the pattern-significance and maintenance engine.       *)
(*                                                                         *)
(* The graph store is modelled as a property graph: typed nodes kept in    *)
(* one map per entity kind, and a set of typed edges.  A store statement   *)
(* either takes effect with the meaning of its Cypher text or raises; the  *)
(* handlers around it are the ones of the source.                          *)
(*                                                                         *)
(* Specifications:                                                         *)
(*   SpecSig      _calculate_significance applied to bounded findings      *)
(*   SpecFriction friction_log, one call at a time                         *)
(*   SpecConc     friction_log, concurrent callers (read and SET apart)    *)
(*   Spec         sessions, beliefs, insights, observations and the        *)
(*                Synthesizer / Protector runs, one operation at a time    *)
(***************************************************************************)
EXTENDS Integers, Sequences, FiniteSets, TLC

(***************************************************************************)
(* Bounds of the model.                                                    *)
(***************************************************************************)
MaxFrictionItems == 5
MaxEmerging == 4
MaxConfirmed == 4
MaxContradictions == 3
MaxQuestions == 3
MaxChains == 1
MaxFrictions == 2       \* Friction nodes the store may hold
MaxCount == 3           \* largest recurrence_count a call may write
NCallers == 2           \* concurrent friction_log callers
MaxCalls == 3           \* friction_log calls started in a concurrent run
MaxBeliefs == 3         \* Belief ids handed out
MaxInsights == 2        \* Insight ids handed out
MaxObservations == 3    \* Observation ids handed out
MaxSessions == 2        \* sessions opened
MaxRelationships == 1   \* relationships stored by journal_extract
MaxTicks == 2           \* times the clock is advanced
MaxNodes == 3            \* nodes created in one behaviour, of all kinds
MaxEligible == 75        \* stale unmerged Observations in a stored graph
MaxQuestionNodes == 2    \* Questions in a stored graph
MaxStored == 4
MaxDomains == 4
MaxScore == 100
MaxPatterns == 3
MaxChecks == 2
MaxDays == 2
MaxFaults == 1          \* store statements that raise

(***************************************************************************)
(* Program constants.                                                      *)
(***************************************************************************)
FRICTION_RECURRENCE_THRESHOLD == 3
PATTERN_EMERGENCE_THRESHOLD == 2
PATTERN_CONFIRMATION_THRESHOLD == 5
SEARCH_TERM_LEN == 50
SIMILARITY_THRESHOLD == 85          \* 0.85, in hundredths
OBSERVATION_AGE_THRESHOLD == 7
MIN_OBSERVATIONS_FOR_INSIGHT == 2
OBSERVATION_MAX_AGE_DAYS == 60
QUESTION_STALE_DAYS == 30
SESSION_ARCHIVE_DAYS == 90
ORPHAN_LIMIT == 10
PRUNE_LIMIT == 50
FINDING_LIMIT == 20
HUB_CONNECTIONS == 5
UNDERUTILIZED_LIMIT == 10
DOMAIN_CLUSTER_SIZE == 3
GOAL_CLUSTER_SESSIONS == 2
GOAL_CLUSTER_LIMIT == 10
PROMOTION_THRESHOLD == 3
CONNECTION_SIMILARITY == 80        \* 0.8, in hundredths
ROW_LIMIT == 100
CONNECTION_LIMIT == 10
HIGH_SEVERITY_COUNT == 5
MERGE_CONTENT_LIMIT == 3

VARIABLES
    findings,       \* the findings dictionary handed to _calculate_significance
    significance,   \* the dictionary it returned
    sigpc,          \* "off" | "input" | "done"
    frictions,      \* Friction nodes: id -> [description, category, recurrence_count]
    flogResult,     \* what the last friction_log call returned
    streak,         \* history: the run of consecutive calls with one description
    callers,        \* concurrent friction_log calls: position and locals
    callsMade,      \* friction_log calls started in the concurrent run
    recurringCalls, \* history: id -> calls that returned is_recurring for it
    beliefs,        \* Belief nodes: id -> content
    insights,       \* Insight nodes: id -> content
    observations,   \* Observation nodes: id -> [text, age in days]
    sessions,       \* Session nodes: id -> [ended]
    edges,          \* relationships: [src, rel, dst], a node being <<kind, id>>
    issued,         \* ids handed out so far, per kind
    used,           \* relationships stored, clock advances and raised statements so far
    snapshot,       \* history: session -> inheritable nodes present when it opened
    ppc,            \* position of the Protector run
    prows,          \* rows of the duplicate query not yet fetched
    merged,         \* Protector._deduplicate_entities: merged
    pruned,         \* Protector._prune_low_value_entities: pruned
    preport,        \* number of "Error ..." lines in Protector.report
    lastMerge,      \* history: the last _merge_entities call and the graph before it
    pass,           \* history: the graph when the running deduplication began
    questions,      \* Question nodes: id -> [age, resolved, urgency]
    marked,         \* Protector._mark_stale_questions: marked
    archived,       \* Protector._archive_old_sessions: archived
    orphans,        \* Protector._find_orphan_nodes: orphans
    patterns,       \* Pattern nodes: id -> [occurrence_count, status, origin], origin
                    \* the Friction the Synthesizer made it from (0: none)
    contradictions, \* CONTRADICTS relationships: id -> [resolved]
    today,          \* the date of the clock, as a day number
    proposalFiles,  \* the files of the proposals directory
    checkResult,    \* what the last pattern_check call returned
    events,         \* knowledge events emitted: node -> number carrying its id
    pathfinder,     \* what the last Pathfinder.run returned
    noEmbedding,    \* the Insights whose embedding property is NULL
    surfaced,       \* what the last cross-domain surfacing returned
    grouping        \* the last call of _group_by_similarity: its input and result

sigVars == <<findings, significance, sigpc>>
frictionVars == <<frictions, flogResult, streak, callers, callsMade, recurringCalls>>

graphVars == <<beliefs, insights, observations, sessions, edges, issued, used, snapshot>>
protectorVars == <<ppc, prows, merged, pruned, preport, lastMerge, pass>>
lifecycleVars == <<questions, marked, archived, orphans>>
checkVars == <<patterns, contradictions, today, proposalFiles, checkResult>>
surfaceVars == <<noEmbedding, surfaced, grouping>>

vars == <<findings, significance, sigpc, frictions, flogResult, streak,
          callers, callsMade, recurringCalls, beliefs, insights, observations,
          sessions, edges, issued, used, snapshot, ppc, prows, merged, pruned,
          preport, lastMerge, pass, questions, marked, archived, orphans,
          patterns, contradictions, today, proposalFiles, checkResult, events,
          pathfinder, noEmbedding, surfaced, grouping>>

Min(a, b) == IF a <= b THEN a ELSE b

(***************************************************************************)
(* Significance engine (mcp/patterns.py).                                  *)
(***************************************************************************)
\* a list of n items of which only the length is read
ListOfLen(n) == [i \in 1..n |-> i]

SeqsUpTo(S, n) == UNION {[1..k -> S] : k \in 0..n}

FrictionItems == [severity : {"high", "medium"}]
ContradictionItems == [resolved : BOOLEAN]

AllFindings ==
    [recurring_friction : SeqsUpTo(FrictionItems, MaxFrictionItems),
     emerging_patterns : {ListOfLen(n) : n \in 0..MaxEmerging},
     confirmed_patterns : {ListOfLen(n) : n \in 0..MaxConfirmed},
     belief_contradictions : SeqsUpTo(ContradictionItems, MaxContradictions),
     unresolved_questions : {ListOfLen(n) : n \in 0..MaxQuestions},
     friction_insight_chains : {ListOfLen(n) : n \in 0..MaxChains}]

EmptyFindings ==
    [recurring_friction |-> << >>, emerging_patterns |-> << >>,
     confirmed_patterns |-> << >>, belief_contradictions |-> << >>,
     unresolved_questions |-> << >>, friction_insight_chains |-> << >>]

\* sum(1 for f in xs if f.get("severity") == "high")
CountHigh(xs) == Cardinality({i \in 1..Len(xs) : xs[i].severity = "high"})

\* sum(1 for c in xs if not c.get("resolved"))
CountNotResolved(xs) == Cardinality({i \in 1..Len(xs) : ~xs[i].resolved})

\* mutant: warrants_evolution looked at before the score bands
_get_recommendation_reviewFirst(score, warrants_evolution) ==
    IF warrants_evolution THEN "REVIEW"
    ELSE IF score >= 50 THEN "URGENT"
    ELSE IF score >= 30 THEN "ATTENTION"
    ELSE IF score >= 15 THEN "MONITOR"
    ELSE "STABLE"
_get_recommendation(score, warrants_evolution) ==
    IF score >= 50 THEN "URGENT"
    ELSE IF score >= 30 THEN "ATTENTION"
    ELSE IF warrants_evolution THEN "REVIEW"
    ELSE IF score >= 15 THEN "MONITOR"
    ELSE "STABLE"

\* mutant: the high-severity weight of 15 taken for the recurring weight of 5
HighSeverityScore_weight5(n) == Min(n * 5, 30)
HighSeverityScore(n) == Min(n * 15, 30)
RecurringScore(n) == Min(n * 5, 20)
EmergingScore(n) == Min(n * 5, 15)
\* mutant: the cap of 10 on confirmed patterns dropped
ConfirmedScore_uncapped(n) == n * 3
ConfirmedScore(n) == Min(n * 3, 10)
ContradictionScore(n) == Min(n * 10, 20)
\* mutant: the cap of 5 on unresolved questions dropped
QuestionScore_uncapped(n) == n * 2
QuestionScore(n) == Min(n * 2, 5)

\* mutant: the emerging-pattern trigger fires at 2 instead of 3
WarrantsEvolution_emerging2(high, recurring, unresolved, emerging) ==
    \/ high >= 1
    \/ recurring >= 2
    \/ unresolved >= 1
    \/ emerging >= 2
WarrantsEvolution(high, recurring, unresolved, emerging) ==
    \/ high >= 1
    \/ recurring >= 2
    \/ unresolved >= 1
    \/ emerging >= 3

_calculate_significance(f) ==
    LET recurring_friction_count == Len(f.recurring_friction)
        high_severity_friction == CountHigh(f.recurring_friction)
        emerging_patterns_count == Len(f.emerging_patterns)
        confirmed_patterns_count == Len(f.confirmed_patterns)
        unresolved_contradictions == CountNotResolved(f.belief_contradictions)
        unresolved_questions_count == Len(f.unresolved_questions)
        friction_insight_chains_count == Len(f.friction_insight_chains)
        score == HighSeverityScore(high_severity_friction)
                 + RecurringScore(recurring_friction_count)
                 + EmergingScore(emerging_patterns_count)
                 + ConfirmedScore(confirmed_patterns_count)
                 + ContradictionScore(unresolved_contradictions)
                 + QuestionScore(unresolved_questions_count)
        warrants_evolution ==
            WarrantsEvolution(high_severity_friction, recurring_friction_count,
                              unresolved_contradictions, emerging_patterns_count)
    IN [score |-> score,
        warrants_evolution |-> warrants_evolution,
        high_severity_friction |-> high_severity_friction,
        recurring_friction_count |-> recurring_friction_count,
        emerging_patterns_count |-> emerging_patterns_count,
        confirmed_patterns_count |-> confirmed_patterns_count,
        unresolved_contradictions |-> unresolved_contradictions,
        unresolved_questions_count |-> unresolved_questions_count,
        friction_insight_chains_count |-> friction_insight_chains_count,
        recommendation |-> _get_recommendation(score, warrants_evolution)]

NoResult ==
    [score |-> -1, warrants_evolution |-> FALSE, high_severity_friction |-> 0,
     recurring_friction_count |-> 0, emerging_patterns_count |-> 0,
     confirmed_patterns_count |-> 0, unresolved_contradictions |-> 0,
     unresolved_questions_count |-> 0, friction_insight_chains_count |-> 0,
     recommendation |-> "NONE"]

(***************************************************************************)
(* Friction logging (mcp/friction.py).                                     *)
(*                                                                         *)
(* A description is a sequence of characters.  The alphabet holds a lower  *)
(* case letter, its upper case and the single quote, which _escape         *)
(* rewrites; it holds no backslash, which _escape passes through.  The     *)
(* category is validated and then only stored, so a Friction keeps its     *)
(* description and recurrence_count.                                       *)
(***************************************************************************)
Alphabet == {"a", "A", "'"}
\* the descriptions callers log: a word, the same word in upper case, a text
\* that contains the word, and a text every quoted description contains
Descriptions == {<<"a">>, <<"A">>, <<"a", "'">>, <<"'">>}

valid_categories == {"tooling", "conceptual", "process", "environmental", "relational"}
Categories == {"tooling", "other"}

\* text.replace("'", "\\'"): a backslash is put before every quote
RECURSIVE _escape(_)
_escape(text) ==
    IF text = << >> THEN << >>
    ELSE (IF Head(text) = "'" THEN <<"\\", "'">> ELSE <<Head(text)>>)
         \o _escape(Tail(text))

\* the store reading the body of a quoted literal: backslash + c stands for c
RECURSIVE ReadLiteral(_)
ReadLiteral(lit) ==
    IF lit = << >> THEN << >>
    ELSE IF Head(lit) = "\\" /\ Len(lit) >= 2
         THEN <<lit[2]>> \o ReadLiteral(Tail(Tail(lit)))
         ELSE <<Head(lit)>> \o ReadLiteral(Tail(lit))

LowerChar(c) == IF c = "A" THEN "a" ELSE c
\* str.lower() and the store's toLower()
ToLower(text) == [i \in 1..Len(text) |-> LowerChar(text[i])]

\* description[:50]
Truncate(text) == SubSeq(text, 1, Min(Len(text), SEARCH_TERM_LEN))

\* the store's CONTAINS
Contains(text, term) ==
    \E i \in 1..(Len(text) - Len(term) + 1) :
        SubSeq(text, i, i + Len(term) - 1) = term

\* row[2] or 1
CountOrOne(c) == IF c = 0 THEN 1 ELSE c

\* _find_similar_friction: the ids of the rows the query returns
\* mutant: the search term compared without lower-casing the stored text
SimilarFrictions_caseSensitive(fr, description) ==
    LET search_term == ToLower(Truncate(description))
    IN {f \in DOMAIN fr :
            Contains(fr[f].description, ReadLiteral(_escape(search_term)))}
SimilarFrictions(fr, description) ==
    LET search_term == ToLower(Truncate(description))
    IN {f \in DOMAIN fr :
            Contains(ToLower(fr[f].description), ReadLiteral(_escape(search_term)))}

Put(fn, k, v) == [x \in DOMAIN fn \cup {k} |-> IF x = k THEN v ELSE fn[x]]

\* uuid4-based ids never collide: the next unused id
FreshFrictionId(fr) == Cardinality(DOMAIN fr) + 1

\* SET f.recurrence_count = new_count
SetCount(fr, id, new_count) ==
    IF id \in DOMAIN fr
    THEN [fr EXCEPT ![id].recurrence_count = new_count]
    ELSE fr

\* CREATE (f:Friction {..., recurrence_count: 1})
CreateFriction(fr, id, description, category) ==
    Put(fr, id, [description |-> ReadLiteral(_escape(description)),
                 recurrence_count |-> 1])

NoFlogResult ==
    [success |-> FALSE, friction_id |-> 0, is_recurring |-> FALSE, recurrence_count |-> 0]
NoStreak == [description |-> << >>, k |-> 0, id |-> 0, fresh |-> FALSE]
IdleCaller == [pc |-> "idle", description |-> << >>, existing |-> 0, read_count |-> 0]

EmptyMap == [x \in {} |-> 0]

\* a node of the graph
Node(kind, id) == <<kind, id>>

TelemetryOff == events = EmptyMap

NoPathfinder ==
    [success |-> FALSE, needs_rebuild |-> {}, hubs |-> {}, underutilized |-> {},
     semantic_clusters |-> {}, report |-> 0]

PathfinderOff == pathfinder = NoPathfinder

\* telemetry/events.py:123-136, one knowledge event carrying the node's id
Emit(ev, node) ==
    [x \in DOMAIN ev \cup {node} |->
        (IF x \in DOMAIN ev THEN ev[x] ELSE 0) + (IF x = node THEN 1 ELSE 0)]

RECURSIVE EmitAll(_, _)
EmitAll(ev, nodes) ==
    IF nodes = << >> THEN ev ELSE EmitAll(Emit(ev, Head(nodes)), Tail(nodes))

FrictionOff ==
    /\ frictions = EmptyMap
    /\ flogResult = NoFlogResult
    /\ streak = NoStreak
    /\ callers = [p \in {} |-> IdleCaller]
    /\ callsMade = 0
    /\ recurringCalls = EmptyMap

\* history: the run of consecutive calls with the identical description
NextStreak(description, id, wasFresh) ==
    IF streak.k > 0 /\ streak.description = description
    THEN [streak EXCEPT !.k = @ + 1]
    ELSE [description |-> description, k |-> 1, id |-> id, fresh |-> wasFresh]

\* friction_log(description, category), the whole call
FrictionLog(description, category) ==
    IF category \notin valid_categories
    THEN /\ flogResult' = NoFlogResult
         /\ streak' = NoStreak
         /\ UNCHANGED <<frictions, recurringCalls, events>>
    ELSE LET similar == SimilarFrictions(frictions, description) IN
         IF similar # {}
         THEN \E existing \in similar :
                LET new_count == CountOrOne(frictions[existing].recurrence_count) + 1 IN
                /\ new_count <= MaxCount
                /\ frictions' = SetCount(frictions, existing, new_count)
                /\ recurringCalls' = [recurringCalls EXCEPT ![existing] = @ + 1]
                /\ flogResult' = [success |-> TRUE, friction_id |-> existing,
                                  is_recurring |-> TRUE, recurrence_count |-> new_count]
                /\ streak' = NextStreak(description, existing, FALSE)
                /\ events' = Emit(events, Node("Friction", existing))
         ELSE LET id == FreshFrictionId(frictions) IN
                /\ id <= MaxFrictions
                /\ frictions' = CreateFriction(frictions, id, description, category)
                /\ recurringCalls' = Put(recurringCalls, id, 0)
                /\ flogResult' = [success |-> TRUE, friction_id |-> id,
                                  is_recurring |-> FALSE, recurrence_count |-> 1]
                /\ streak' = NextStreak(description, id, TRUE)
                /\ events' = Emit(events, Node("Friction", id))

FrictionLogCall ==
    /\ \E d \in Descriptions, c \in Categories : FrictionLog(d, c)
    /\ UNCHANGED <<sigVars, checkVars, pathfinder, surfaceVars, lifecycleVars, callers, callsMade, graphVars, protectorVars>>

\* journal_extract storing an extracted Friction (mcp/extract.py _store_entity):
\* a new node with recurrence_count 1, whatever the graph already holds
StoreFriction ==
    /\ \E d \in Descriptions :
        LET id == FreshFrictionId(frictions) IN
        /\ id <= MaxFrictions
        /\ frictions' = CreateFriction(frictions, id, d, "extracted")
        /\ recurringCalls' = Put(recurringCalls, id, 0)
        /\ events' = Emit(events, Node("Friction", id))
    /\ streak' = NoStreak
    /\ UNCHANGED <<sigVars, checkVars, pathfinder, surfaceVars, lifecycleVars, flogResult, callers, callsMade, graphVars, protectorVars>>


(***************************************************************************)
(* friction_log under concurrent callers: the read of the existing count   *)
(* in _find_similar_friction (friction.py:136-151) and the SET of          *)
(* count + 1 (friction.py:50-53) are two store statements.                 *)
(***************************************************************************)
Callers == 1..NCallers

\* lines 42-48: the query runs and the caller keeps the first row's id and count
FindSimilar(p) ==
    /\ callers[p].pc = "idle"
    /\ callsMade < MaxCalls
    /\ \E d \in Descriptions :
        LET similar == SimilarFrictions(frictions, d) IN
        IF similar # {}
        THEN \E existing \in similar :
                callers' = [callers EXCEPT ![p] =
                    [pc |-> "found", description |-> d, existing |-> existing,
                     read_count |-> CountOrOne(frictions[existing].recurrence_count)]]
        ELSE callers' = [callers EXCEPT ![p] =
                    [pc |-> "found", description |-> d, existing |-> 0, read_count |-> 0]]
    /\ callsMade' = callsMade + 1
    /\ UNCHANGED <<sigVars, checkVars, pathfinder, surfaceVars, events, lifecycleVars, frictions, flogResult, streak, recurringCalls, graphVars, protectorVars>>

\* lines 44-55: SET f.recurrence_count = new_count, from the count read earlier
WriteIncrement(p) ==
    /\ callers[p].pc = "found"
    /\ callers[p].existing # 0
    /\ LET new_count == callers[p].read_count + 1 IN
        /\ frictions' = SetCount(frictions, callers[p].existing, new_count)
        /\ recurringCalls' = [recurringCalls EXCEPT ![callers[p].existing] = @ + 1]
        /\ flogResult' = [success |-> TRUE, friction_id |-> callers[p].existing,
                          is_recurring |-> TRUE, recurrence_count |-> new_count]
    /\ events' = Emit(events, Node("Friction", callers[p].existing))
    /\ callers' = [callers EXCEPT ![p] = IdleCaller]
    /\ UNCHANGED <<sigVars, checkVars, pathfinder, surfaceVars, lifecycleVars, streak, callsMade, graphVars, protectorVars>>

\* lines 57-74: CREATE the Friction with recurrence_count 1
WriteCreate(p) ==
    /\ callers[p].pc = "found"
    /\ callers[p].existing = 0
    /\ LET id == FreshFrictionId(frictions) IN
        /\ id <= MaxFrictions
        /\ frictions' = CreateFriction(frictions, id, callers[p].description, "tooling")
        /\ recurringCalls' = Put(recurringCalls, id, 0)
        /\ flogResult' = [success |-> TRUE, friction_id |-> id,
                          is_recurring |-> FALSE, recurrence_count |-> 1]
        /\ events' = Emit(events, Node("Friction", id))
    /\ callers' = [callers EXCEPT ![p] = IdleCaller]
    /\ UNCHANGED <<sigVars, checkVars, pathfinder, surfaceVars, lifecycleVars, streak, callsMade, graphVars, protectorVars>>

(***************************************************************************)
(* The knowledge graph (mcp/session.py, mcp/journal.py, mcp/extract.py).   *)
(*                                                                         *)
(* Ids are numbered in the order they are handed out; the source builds    *)
(* them from a timestamp and a random suffix, and the store compares them  *)
(* as strings.  A Belief's content is a text; an Insight's content is the  *)
(* texts joined into it and the number left out of the join.  Of the seven *)
(* inheritable kinds the model keeps the two the Protector deduplicates;   *)
(* _capture_inherited treats all seven alike.                              *)
(***************************************************************************)
Contents == {"p", "q"}
Texts == {"x", "z"}
Jumps == {OBSERVATION_AGE_THRESHOLD + 1, OBSERVATION_MAX_AGE_DAYS - OBSERVATION_AGE_THRESHOLD}

Edge(s, r, d) == [src |-> s, rel |-> r, dst |-> d]
Drop(fn, k) == [x \in DOMAIN fn \ {k} |-> fn[x]]
Max(a, b) == IF a >= b THEN a ELSE b

BeliefNodes == {Node("Belief", b) : b \in DOMAIN beliefs}
InsightNodes == {Node("Insight", i) : i \in DOMAIN insights}

\* session.py:203, the entity kinds a session inherits
Inheritable == BeliefNodes \cup InsightNodes

\* journal.py:63-75 and extract.py:160-170, the content of a written Insight
PlainContent(text) == [parts |-> <<text>>, more |-> 0]

\* embeddings/model.py get_embedding: a text becomes a direction, in degrees
get_embedding(text) ==
    CASE text = "x" -> 0
      [] text = "y" -> 25
      [] text = "z" -> 50
      [] text = "w" -> 100

\* cosine of the angle between two directions, in hundredths
cosine_similarity(a, b) ==
    LET d == IF a >= b THEN a - b ELSE b - a
    IN  CASE d = 0 -> 100
          [] d = 25 -> 90
          [] d = 50 -> 64
          [] d = 75 -> 25
          [] d = 100 -> 0 - 17

NoIssued == [Belief |-> 0, Insight |-> 0, Observation |-> 0, stored |-> 0]
NoUsed == [relationships |-> 0, ticks |-> 0, faults |-> 0]
NoMerge ==
    [called |-> FALSE, kind |-> "", keep |-> 0, remove |-> 0, existed |-> FALSE,
     raised |-> FALSE, edgesBefore |-> {}, mergedBefore |-> 0]
NoPass == [beliefs |-> EmptyMap, insights |-> EmptyMap, raised |-> FALSE]

\* the nodes created since Init; issued.stored is the number Init laid down
NodesIssued ==
    issued.Belief + issued.Insight + issued.Observation + Cardinality(DOMAIN sessions)
        - issued.stored

GraphOff ==
    /\ beliefs = EmptyMap
    /\ insights = EmptyMap
    /\ observations = EmptyMap
    /\ sessions = EmptyMap
    /\ edges = {}
    /\ issued = NoIssued
    /\ used = NoUsed
    /\ snapshot = EmptyMap
    /\ ppc = "idle"
    /\ prows = {}
    /\ merged = 0
    /\ pruned = 0
    /\ preport = 0
    /\ lastMerge = NoMerge
    /\ pass = NoPass
    /\ questions = EmptyMap
    /\ marked = 0
    /\ archived = 0
    /\ orphans = {}

\* session.py:199-223: one CREATE per inheritable entity, a CREATE that
\* raises is passed over
_capture_inherited(session_id, failed) ==
    {Edge(Node("Session", session_id), "INHERITED", e) : e \in Inheritable \ failed}

\* session.py:15-104
SessionOpen ==
    /\ ppc = "idle"
    /\ Cardinality(DOMAIN sessions) < MaxSessions
    /\ NodesIssued < MaxNodes
    /\ \E failed \in SUBSET Inheritable :
        LET session_id == Cardinality(DOMAIN sessions) + 1
        IN  /\ used.faults + Cardinality(failed) <= MaxFaults
            /\ sessions' = Put(sessions, session_id, [ended |-> FALSE, endedAge |-> 0, archived |-> FALSE])
            /\ edges' = edges \cup _capture_inherited(session_id, failed)
            /\ snapshot' = Put(snapshot, session_id, Inheritable)
            /\ used' = [used EXCEPT !.faults = @ + Cardinality(failed)]
    /\ UNCHANGED <<sigVars, checkVars, pathfinder, surfaceVars, events, lifecycleVars, frictionVars, beliefs, insights, observations, issued,
                   protectorVars>>

\* session.py:106-197
SessionClose ==
    /\ ppc = "idle"
    /\ \E session_id \in DOMAIN sessions :
        /\ ~sessions[session_id].ended
        /\ sessions' = [sessions EXCEPT ![session_id].ended = TRUE,
                                         ![session_id].endedAge = 0]
    /\ UNCHANGED <<sigVars, checkVars, pathfinder, surfaceVars, events, lifecycleVars, frictionVars, beliefs, insights, observations, edges,
                   issued, used, snapshot, protectorVars>>

\* journal.py:123-134: the PRODUCED_<TYPE> edge, when the session is matched
Produced(session_id, rel, e) ==
    IF session_id \in DOMAIN sessions
    THEN {Edge(Node("Session", session_id), rel, e)}
    ELSE {}

\* journal.py:17-168, category "insight"
JournalWriteInsight ==
    /\ ppc = "idle"
    /\ issued.Insight < MaxInsights
    /\ NodesIssued < MaxNodes
    /\ \E content \in Texts, session_id \in {0} \cup DOMAIN sessions :
        LET entity_id == issued.Insight + 1
        IN  /\ insights' = Put(insights, entity_id, PlainContent(content))
            /\ edges' = edges \cup
                   Produced(session_id, "PRODUCED_INSIGHT", Node("Insight", entity_id))
            /\ issued' = [issued EXCEPT !.Insight = entity_id]
            /\ events' = Emit(events, Node("Insight", entity_id))
    /\ UNCHANGED <<sigVars, checkVars, pathfinder, surfaceVars, lifecycleVars, frictionVars, beliefs, observations, sessions, used,
                   snapshot, protectorVars>>

\* journal.py:17-168, category "observation"
JournalWriteObservation ==
    /\ ppc = "idle"
    /\ issued.Observation < MaxObservations
    /\ NodesIssued < MaxNodes
    /\ \E content \in Texts, session_id \in {0} \cup DOMAIN sessions :
        LET entity_id == issued.Observation + 1
        IN  /\ observations' = Put(observations, entity_id,
                   [content |-> content, embedding |-> get_embedding(content),
                    age |-> 0])
            /\ edges' = edges \cup
                   Produced(session_id, "PRODUCED_OBSERVATION",
                            Node("Observation", entity_id))
            /\ issued' = [issued EXCEPT !.Observation = entity_id]
            /\ events' = Emit(events, Node("Observation", entity_id))
    /\ UNCHANGED <<sigVars, checkVars, pathfinder, surfaceVars, lifecycleVars, frictionVars, beliefs, insights, sessions, used,
                   snapshot, protectorVars>>

\* extract.py:285-310, the relationship table of two entities of one kind
_get_relationship_table(kind) == IF kind = "Belief" THEN "CONTRADICTS" ELSE "LED_TO"

\* extract.py:22-141 with Belief entities and no session_id: each is stored
\* (143-263), then the relationship between the two just stored (100-128)
JournalExtractBeliefs ==
    /\ ppc = "idle"
    /\ \E contents \in SeqsUpTo(Contents, 2) \ {<< >>}, related \in BOOLEAN :
        LET first == issued.Belief + 1
            ids == [i \in 1..Len(contents) |-> issued.Belief + i]
            rel == related /\ Len(contents) = 2
        IN  /\ issued.Belief + Len(contents) <= MaxBeliefs
            /\ NodesIssued + Len(contents) <= MaxNodes
            /\ rel => used.relationships < MaxRelationships
            /\ beliefs' = [b \in DOMAIN beliefs \cup {ids[i] : i \in 1..Len(contents)} |->
                              IF b \in DOMAIN beliefs THEN beliefs[b]
                              ELSE contents[b - issued.Belief]]
            /\ edges' = edges \cup
                   (IF rel
                    THEN {Edge(Node("Belief", first), _get_relationship_table("Belief"),
                               Node("Belief", first + 1))}
                    ELSE {})
            /\ issued' = [issued EXCEPT !.Belief = @ + Len(contents)]
            /\ used' = [used EXCEPT !.relationships = IF rel THEN @ + 1 ELSE @]
            /\ events' = EmitAll(events, [i \in DOMAIN ids |-> Node("Belief", ids[i])])
    /\ UNCHANGED <<sigVars, checkVars, pathfinder, surfaceVars, lifecycleVars, frictionVars, insights, observations, sessions, snapshot,
                   protectorVars>>

\* extract.py:22-141 with Insight entities and no session_id
JournalExtractInsights ==
    /\ ppc = "idle"
    /\ \E contents \in SeqsUpTo(Texts, 2) \ {<< >>}, related \in BOOLEAN :
        LET first == issued.Insight + 1
            ids == [i \in 1..Len(contents) |-> issued.Insight + i]
            rel == related /\ Len(contents) = 2
        IN  /\ issued.Insight + Len(contents) <= MaxInsights
            /\ NodesIssued + Len(contents) <= MaxNodes
            /\ rel => used.relationships < MaxRelationships
            /\ insights' = [n \in DOMAIN insights \cup {ids[i] : i \in 1..Len(contents)} |->
                              IF n \in DOMAIN insights THEN insights[n]
                              ELSE PlainContent(contents[n - issued.Insight])]
            /\ edges' = edges \cup
                   (IF rel
                    THEN {Edge(Node("Insight", first), _get_relationship_table("Insight"),
                               Node("Insight", first + 1))}
                    ELSE {})
            /\ issued' = [issued EXCEPT !.Insight = @ + Len(contents)]
            /\ used' = [used EXCEPT !.relationships = IF rel THEN @ + 1 ELSE @]
            /\ events' = EmitAll(events, [i \in DOMAIN ids |-> Node("Insight", ids[i])])
    /\ UNCHANGED <<sigVars, checkVars, pathfinder, surfaceVars, lifecycleVars, frictionVars, beliefs, observations, sessions, snapshot,
                   protectorVars>>

\* the clock: every timestamp in the graph grows older by the same number
\* of days
Tick ==
    /\ ppc = "idle"
    /\ used.ticks < MaxTicks
    /\ \E days \in Jumps :
        /\ observations' = [o \in DOMAIN observations |->
                               [observations[o] EXCEPT !.age = @ + days]]
        /\ questions' = [q \in DOMAIN questions |->
                            [questions[q] EXCEPT !.age = @ + days]]
        /\ sessions' = [x \in DOMAIN sessions |->
                           IF sessions[x].ended
                           THEN [sessions[x] EXCEPT !.endedAge = @ + days]
                           ELSE sessions[x]]
    /\ used' = [used EXCEPT !.ticks = @ + 1]
    /\ UNCHANGED <<sigVars, checkVars, pathfinder, surfaceVars, events, frictionVars, beliefs, insights, edges, issued,
                   snapshot, protectorVars, marked, archived, orphans>>

(***************************************************************************)
(* Synthesizer (librarians/synthesizer.py): consolidation of Observations. *)
(***************************************************************************)
\* every order in which the store may return the members of a set
Orders(S) ==
    {f \in [1..Cardinality(S) -> S] : \A i, j \in DOMAIN f : i # j => f[i] # f[j]}

Range(f) == {f[i] : i \in DOMAIN f}

\* synthesizer.py:57-63, Observations older than the age threshold
OldObservations == {o \in DOMAIN observations : observations[o].age > OBSERVATION_AGE_THRESHOLD}

\* synthesizer.py:110-112, the test against the seed of a group
SimilarToSeed(obs1, obs2) ==
    cosine_similarity(observations[obs1].embedding, observations[obs2].embedding)
        >= SIMILARITY_THRESHOLD

\* a grouping that marks only the seed of a group as used
RECURSIVE GroupFrom_seedOnlyUsed(_, _)
GroupFrom_seedOnlyUsed(order, usedIds) ==
    IF order = << >> THEN << >>
    ELSE LET obs1 == Head(order)
             rest == Tail(order)
         IN  IF obs1 \in usedIds THEN GroupFrom_seedOnlyUsed(rest, usedIds)
             ELSE LET group == <<obs1>> \o
                               SelectSeq(rest, LAMBDA obs2 :
                                   obs2 \notin usedIds /\ SimilarToSeed(obs1, obs2))
                  IN  (IF Len(group) > 1 THEN <<group>> ELSE << >>)
                          \o GroupFrom_seedOnlyUsed(rest, usedIds \cup {obs1})

\* synthesizer.py:91-119
\* a grouping in which an Observation joins when it is similar to any member
RECURSIVE JoinAny(_, _, _)
JoinAny(group, rest, usedIds) ==
    IF rest = << >> THEN group
    ELSE JoinAny(IF /\ Head(rest) \notin usedIds
                    /\ \E m \in Range(group) : SimilarToSeed(m, Head(rest))
                 THEN Append(group, Head(rest)) ELSE group,
                 Tail(rest), usedIds)

RECURSIVE GroupFrom_anyMember(_, _)
GroupFrom_anyMember(order, usedIds) ==
    IF order = << >> THEN << >>
    ELSE LET obs1 == Head(order)
             rest == Tail(order)
         IN  IF obs1 \in usedIds THEN GroupFrom_anyMember(rest, usedIds)
             ELSE LET group == JoinAny(<<obs1>>, rest, usedIds)
                  IN  (IF Len(group) > 1 THEN <<group>> ELSE << >>)
                          \o GroupFrom_anyMember(rest, usedIds \cup Range(group))

RECURSIVE GroupFrom(_, _)
GroupFrom(order, usedIds) ==
    IF order = << >> THEN << >>
    ELSE LET obs1 == Head(order)
             rest == Tail(order)
         IN  IF obs1 \in usedIds THEN GroupFrom(rest, usedIds)
             ELSE LET group == <<obs1>> \o
                               SelectSeq(rest, LAMBDA obs2 :
                                   obs2 \notin usedIds /\ SimilarToSeed(obs1, obs2))
                  IN  (IF Len(group) > 1 THEN <<group>> ELSE << >>)
                          \o GroupFrom(rest, usedIds \cup Range(group))

_group_by_similarity(order) == GroupFrom(order, {})

\* a call of _group_by_similarity with a list of stored Observations
GroupCall ==
    /\ \E S \in SUBSET DOMAIN observations :
        \E order \in Orders(S) :
            grouping' = [called |-> TRUE, observations |-> order,
                         groups |-> _group_by_similarity(order)]
    /\ UNCHANGED <<sigVars, checkVars, pathfinder, events, lifecycleVars, frictionVars,
                   graphVars, protectorVars, noEmbedding, surfaced>>

\* synthesizer.py:124-127
CombinedContent(group) ==
    [parts |-> [i \in 1..Min(Len(group), MERGE_CONTENT_LIMIT) |->
                   observations[group[i]].content],
     more |-> Max(Len(group) - MERGE_CONTENT_LIMIT, 0)]

\* synthesizer.py:121-158, on the graph g = [insights, edges, issued]; the
\* CREATE of a MERGED_INTO edge from an Observation in failed raises and is
\* passed over (147-156)
_merge_into_insight(g, group, failed) ==
    LET insight_id == g.issued + 1
    IN  [insights |-> Put(g.insights, insight_id, CombinedContent(group)),
         edges |-> g.edges \cup
                   {Edge(Node("Observation", o), "MERGED_INTO", Node("Insight", insight_id)) :
                       o \in Range(group) \ failed},
         issued |-> insight_id]

\* synthesizer.py:80-84; the CREATE of the Insight of group number failAt
\* raises (137-146) and ends the loop (86-87)
RECURSIVE MergeGroups(_, _, _, _)
MergeGroups(g, groups, failAt, failed) ==
    IF groups = << >> \/ failAt = 1 THEN g
    ELSE MergeGroups(
             IF Len(Head(groups)) >= MIN_OBSERVATIONS_FOR_INSIGHT
             THEN _merge_into_insight(g, Head(groups), failed)
             ELSE g,
             Tail(groups),
             IF failAt = 0 THEN 0 ELSE failAt - 1,
             failed)

\* the statements of a run that may raise: the CREATE of one group's
\* Insight, or the CREATE of one member's edge
MergeFaults(groups) ==
    {[failAt |-> n, failed |-> {}] : n \in 0..Len(groups)}
        \cup {[failAt |-> 0, failed |-> {o}] :
                 o \in UNION {Range(groups[n]) : n \in 1..Len(groups)}}

\* synthesizer.py:51-89
_consolidate_observations ==
    /\ ppc = "idle"
    /\ issued.Insight < MaxInsights
    /\ NodesIssued < MaxNodes
    /\ \E order \in Orders(OldObservations) :
        \E groups \in {_group_by_similarity(order)} :
        \E f \in {h \in MergeFaults(groups) :
                     (h.failAt = 0 /\ h.failed = {}) \/ used.faults < MaxFaults} :
        \E g \in {MergeGroups([insights |-> insights, edges |-> edges,
                                issued |-> issued.Insight],
                               groups, f.failAt, f.failed)} :
            LET raised == IF f.failAt = 0 /\ f.failed = {} THEN 0 ELSE 1
            IN  /\ g.issued <= MaxInsights
                /\ NodesIssued + (g.issued - issued.Insight) <= MaxNodes
                /\ insights' = g.insights
                /\ edges' = g.edges
                /\ issued' = [issued EXCEPT !.Insight = g.issued]
                /\ used' = [used EXCEPT !.faults = @ + raised]
    /\ UNCHANGED <<sigVars, checkVars, pathfinder, surfaceVars, events, lifecycleVars, frictionVars, beliefs, observations, sessions,
                   snapshot, protectorVars>>

(***************************************************************************)
(* Patterns: journal_extract stores an extracted Pattern (mcp/extract.py), *)
(* and the Synthesizer makes a Pattern of every recurring Friction that    *)
(* has none (librarians/synthesizer.py).  Pattern ids are numbered in the  *)
(* order of creation; the Synthesizer's rows are taken in the order of the *)
(* Friction ids, the two statements of one row being independent of those  *)
(* of another.                                                             *)
(***************************************************************************)
\* extract.py:194-204
StorePattern ==
    /\ ppc = "idle"
    /\ Cardinality(DOMAIN patterns) < MaxPatterns
    /\ patterns' = Put(patterns, Cardinality(DOMAIN patterns) + 1,
                       [occurrence_count |-> 1, status |-> "emerging", origin |-> 0])
    /\ events' = Emit(events, Node("Pattern", Cardinality(DOMAIN patterns) + 1))
    /\ UNCHANGED <<sigVars, frictionVars, graphVars, protectorVars, lifecycleVars,
                   contradictions, today, proposalFiles, checkResult, pathfinder, surfaceVars>>

\* synthesizer.py:166-173, the Frictions the query returns
Promotable(fr, E) ==
    {f \in DOMAIN fr :
        /\ fr[f].recurrence_count >= PROMOTION_THRESHOLD
        /\ ~\E e \in E : /\ e.src = Node("Friction", f)
                          /\ e.rel = "MANIFESTATION_OF"
                          /\ e.dst[1] = "Pattern"}

\* synthesizer.py:187-217, on the graph g = [patterns, edges]; outcome says
\* which of the two statements raises, if any
_create_pattern_from_friction(g, friction_id, count, outcome) ==
    LET pattern_id == Cardinality(DOMAIN g.patterns) + 1
        created == Put(g.patterns, pattern_id,
                       [occurrence_count |-> count, status |-> "emerging",
                        origin |-> friction_id])
    IN  CASE outcome = "stored" ->
                 [patterns |-> created,
                  edges |-> g.edges \cup
                            {Edge(Node("Friction", friction_id), "MANIFESTATION_OF",
                                  Node("Pattern", pattern_id))}]
          [] outcome = "link raises" -> [patterns |-> created, edges |-> g.edges]
          [] outcome = "create raises" -> g

AscendingRows(S) ==
    CHOOSE o \in Orders(S) : \A i, j \in DOMAIN o : i < j => o[i] < o[j]

\* synthesizer.py:175-180
RECURSIVE CreatePatterns(_, _, _, _)
CreatePatterns(g, rows, fr, fault) ==
    IF rows = << >> THEN g
    ELSE CreatePatterns(
             _create_pattern_from_friction(
                 g, Head(rows), fr[Head(rows)].recurrence_count,
                 IF fault.friction = Head(rows) THEN fault.outcome ELSE "stored"),
             Tail(rows), fr, fault)

NoPromotionFault == [query |-> FALSE, friction |-> 0, outcome |-> "stored"]

PromotionFaults(rows) ==
    {NoPromotionFault, [query |-> TRUE, friction |-> 0, outcome |-> "stored"]}
        \cup {[query |-> FALSE, friction |-> f, outcome |-> o] :
                 f \in rows, o \in {"create raises", "link raises"}}

\* synthesizer.py:160-185
_detect_emerging_patterns ==
    /\ ppc = "idle"
    /\ \E fault \in PromotionFaults(Promotable(frictions, edges)) :
        \E g \in {IF fault.query THEN [patterns |-> patterns, edges |-> edges]
                   ELSE CreatePatterns([patterns |-> patterns, edges |-> edges],
                                       AscendingRows(Promotable(frictions, edges)),
                                       frictions, fault)} :
            /\ fault # NoPromotionFault => used.faults < MaxFaults
            /\ Cardinality(DOMAIN g.patterns) <= MaxPatterns
            /\ patterns' = g.patterns
            /\ edges' = g.edges
            /\ used' = [used EXCEPT !.faults = @ + IF fault = NoPromotionFault THEN 0 ELSE 1]
    /\ UNCHANGED <<sigVars, frictionVars, beliefs, insights, observations, sessions, issued,
                   snapshot, protectorVars, lifecycleVars, contradictions, today,
                   proposalFiles, checkResult, events, pathfinder, surfaceVars>>

(***************************************************************************)
(* Protector (librarians/protector.py): deduplication and pruning.         *)
(*                                                                         *)
(* _merge_entities sends three statements inside one try.  The two         *)
(* redirects are sent with the relationship label "{type(r)}" as written   *)
(* in the f-string; the store either rejects such a statement or carries   *)
(* out the redirect it describes.  A statement that raises ends the call;  *)
(* the handler adds a line to the report and returns as after success.     *)
(* DELETE of a node that still has relationships raises (only DETACH       *)
(* DELETE removes them).                                                   *)
(***************************************************************************)
Entities(kind) == IF kind = "Belief" THEN beliefs ELSE insights

\* protector.py:61-66 and 79-84
DuplicatePairs_keepLarger(fn) ==
    {row \in (DOMAIN fn) \X (DOMAIN fn) : row[1] > row[2] /\ fn[row[1]] = fn[row[2]]}

DuplicatePairs(fn) ==
    {row \in (DOMAIN fn) \X (DOMAIN fn) : row[1] < row[2] /\ fn[row[1]] = fn[row[2]]}

\* protector.py:101-106
RedirectOut(E, keep, remove) ==
    LET out == {e \in E : e.src = remove}
    IN  (E \ out) \cup {Edge(keep, e.rel, e.dst) : e \in out}

\* protector.py:108-113
RedirectIn(E, keep, remove) ==
    LET in == {e \in E : e.dst = remove}
    IN  (E \ in) \cup {Edge(e.src, e.rel, keep) : e \in in}

HasEdges(E, n) == \E e \in E : e.src = n \/ e.dst = n

\* protector.py:97-122: the edges and the removed node after the call, and
\* whether a statement raised; failAt names the statement the store rejects
_merge_entities(entity_type, keep_id, remove_id, failAt) ==
    LET keep == Node(entity_type, keep_id)
        remove == Node(entity_type, remove_id)
        matched == keep_id \in DOMAIN Entities(entity_type)
                   /\ remove_id \in DOMAIN Entities(entity_type)
        e1 == IF matched THEN RedirectOut(edges, keep, remove) ELSE edges
        e2 == IF matched THEN RedirectIn(e1, keep, remove) ELSE e1
        present == remove_id \in DOMAIN Entities(entity_type)
    IN  CASE failAt = "out" -> [edges |-> edges, deleted |-> FALSE, raised |-> TRUE]
          [] failAt = "in" -> [edges |-> e1, deleted |-> FALSE, raised |-> TRUE]
          [] failAt = "delete" -> [edges |-> e2, deleted |-> FALSE, raised |-> TRUE]
          [] OTHER ->
                IF present /\ HasEdges(e2, remove)
                THEN [edges |-> e2, deleted |-> FALSE, raised |-> TRUE]
                ELSE [edges |-> e2, deleted |-> present, raised |-> FALSE]

\* protector.py:36-39 and 57-66: the run starts with the Belief query
ProtectorStart ==
    /\ ppc = "idle"
    /\ ppc' = "beliefs"
    /\ prows' = DuplicatePairs(beliefs)
    /\ merged' = 0
    /\ pruned' = 0
    /\ preport' = 0
    /\ lastMerge' = NoMerge
    /\ pass' = [beliefs |-> beliefs, insights |-> insights, raised |-> FALSE]
    /\ marked' = 0
    /\ archived' = 0
    /\ orphans' = {}
    /\ UNCHANGED <<sigVars, checkVars, pathfinder, surfaceVars, events, frictionVars, graphVars, questions>>

\* protector.py:68-72 and 86-90: one row fetched and merged
MergeRow ==
    /\ ppc \in {"beliefs", "insights"}
    /\ \E row \in prows, failAt \in {"none", "out", "in", "delete"} :
        LET entity_type == IF ppc = "beliefs" THEN "Belief" ELSE "Insight"
            injected == IF failAt = "none" THEN 0 ELSE 1
            r == _merge_entities(entity_type, row[1], row[2], failAt)
        IN  /\ used.faults + injected <= MaxFaults
            /\ edges' = r.edges
            /\ beliefs' = IF r.deleted /\ entity_type = "Belief"
                          THEN Drop(beliefs, row[2]) ELSE beliefs
            /\ insights' = IF r.deleted /\ entity_type = "Insight"
                           THEN Drop(insights, row[2]) ELSE insights
            /\ preport' = IF r.raised THEN preport + 1 ELSE preport
            /\ merged' = merged + 1
            /\ prows' = prows \ {row}
            /\ used' = [used EXCEPT !.faults = @ + injected]
            /\ pass' = [pass EXCEPT !.raised = @ \/ r.raised]
            /\ lastMerge' =
                   [called |-> TRUE, kind |-> entity_type, keep |-> row[1],
                    remove |-> row[2],
                    existed |-> {row[1], row[2]} \subseteq DOMAIN Entities(entity_type),
                    raised |-> r.raised, edgesBefore |-> edges,
                    mergedBefore |-> merged]
    /\ UNCHANGED <<sigVars, checkVars, pathfinder, surfaceVars, events, lifecycleVars, frictionVars, observations, sessions, issued, snapshot,
                   ppc, pruned>>

\* protector.py:77-84: the Belief rows are exhausted, the Insight query runs
InsightQuery ==
    /\ ppc = "beliefs"
    /\ prows = {}
    /\ ppc' = "insights"
    /\ prows' = DuplicatePairs(insights)
    /\ lastMerge' = NoMerge
    /\ UNCHANGED <<sigVars, checkVars, pathfinder, surfaceVars, events, lifecycleVars, frictionVars, graphVars, merged, pruned, preport, pass>>

\* protector.py:95: _deduplicate_entities returns
DedupReturn ==
    /\ ppc = "insights"
    /\ prows = {}
    /\ ppc' = "stale"
    /\ lastMerge' = NoMerge
    /\ UNCHANGED <<sigVars, checkVars, pathfinder, surfaceVars, events, lifecycleVars, frictionVars, graphVars, prows, merged, pruned, preport,
                   pass>>

\* protector.py:131-138, the Questions the statement matches
StaleQuestions_alsoResolved(qs) ==
    {q \in DOMAIN qs : qs[q].age > QUESTION_STALE_DAYS /\ qs[q].urgency # "abandoned"}

StaleQuestions(qs) ==
    {q \in DOMAIN qs :
        /\ ~qs[q].resolved
        /\ qs[q].age > QUESTION_STALE_DAYS
        /\ (qs[q].urgency = "NULL" \/ qs[q].urgency # "abandoned")}

\* protector.py:136, SET q.urgency = 'abandoned' on the matched Questions
MarkStale(qs) ==
    [q \in DOMAIN qs |->
        IF q \in StaleQuestions(qs) THEN [qs[q] EXCEPT !.urgency = "abandoned"]
        ELSE qs[q]]

\* protector.py:124-149: one statement marks and counts; when it raises the
\* handler reports the error and nothing is marked
_mark_stale_questions ==
    /\ ppc = "stale"
    /\ \E raised \in BOOLEAN :
        LET injected == IF raised THEN 1 ELSE 0
            stale == StaleQuestions(questions)
        IN  /\ used.faults + injected <= MaxFaults
            /\ used' = [used EXCEPT !.faults = @ + injected]
            /\ questions' = IF raised THEN questions ELSE MarkStale(questions)
            /\ marked' = IF raised THEN 0 ELSE Cardinality(stale)
            /\ preport' = IF raised THEN preport + 1 ELSE preport
    /\ ppc' = "archive"
    /\ UNCHANGED <<sigVars, checkVars, pathfinder, surfaceVars, events, frictionVars, beliefs, insights, observations, sessions,
                   edges, issued, snapshot, prows, merged, pruned, lastMerge, pass,
                   archived, orphans>>

\* protector.py:160-167, the Sessions the statement matches
OldSessions(ss) ==
    {x \in DOMAIN ss :
        ss[x].ended /\ ss[x].endedAge > SESSION_ARCHIVE_DAYS /\ ~ss[x].archived}

\* protector.py:151-178
_archive_old_sessions ==
    /\ ppc = "archive"
    /\ \E raised \in BOOLEAN :
        LET injected == IF raised THEN 1 ELSE 0
            old == OldSessions(sessions)
        IN  /\ used.faults + injected <= MaxFaults
            /\ used' = [used EXCEPT !.faults = @ + injected]
            /\ sessions' = IF raised THEN sessions
                           ELSE [x \in DOMAIN sessions |->
                                    IF x \in old
                                    THEN [sessions[x] EXCEPT !.archived = TRUE]
                                    ELSE sessions[x]]
            /\ archived' = IF raised THEN 0 ELSE Cardinality(old)
            /\ preport' = IF raised THEN preport + 1 ELSE preport
    /\ ppc' = "orphans"
    /\ UNCHANGED <<sigVars, checkVars, pathfinder, surfaceVars, events, frictionVars, beliefs, insights, observations, edges,
                   issued, snapshot, prows, merged, pruned, lastMerge, pass,
                   questions, marked, orphans>>

\* the first n members of S in the order the store returns them, which is
\* by id, upward or downward
FirstRows(S, n, upward) ==
    IF upward
    THEN {a \in S : Cardinality({b \in S : b < a}) < n}
    ELSE {a \in S : Cardinality({b \in S : b > a}) < n}

\* protector.py:188-195, for one entity kind
OrphansOf(kind, ids, upward) ==
    {Node(kind, a) :
        a \in FirstRows({b \in ids : ~HasEdges(edges, Node(kind, b))}, ORPHAN_LIMIT, upward)}

\* protector.py:180-213, over the kinds the graph holds
_find_orphan_nodes ==
    /\ ppc = "orphans"
    /\ \E upward \in BOOLEAN :
        orphans' = OrphansOf("Insight", DOMAIN insights, upward)
                   \cup OrphansOf("Observation", DOMAIN observations, upward)
                   \cup OrphansOf("Belief", DOMAIN beliefs, upward)
    /\ ppc' = "prune"
    /\ UNCHANGED <<sigVars, checkVars, pathfinder, surfaceVars, events, frictionVars, graphVars, prows, merged, pruned, preport,
                   lastMerge, pass, questions, marked, archived>>

Merged(E, o) ==
    \E e \in E : e.src = Node("Observation", o)
                 /\ e.rel \in {"MERGED_INTO", "CRYSTALLIZED_INTO"}

\* protector.py:223-230
PruneCandidates_ageOnly(E, obs) ==
    {o \in DOMAIN obs : obs[o].age > OBSERVATION_MAX_AGE_DAYS}

PruneCandidates(E, obs) ==
    {o \in DOMAIN obs : obs[o].age > OBSERVATION_MAX_AGE_DAYS /\ ~Merged(E, o)}

\* the subsets of S with at most n members
RECURSIVE SubsetsUpTo(_, _)
SubsetsUpTo(S, n) ==
    IF n = 0 THEN {{}}
    ELSE LET smaller == SubsetsUpTo(S, n - 1)
         IN  smaller \cup {p \cup {a} : p \in smaller, a \in S}

\* protector.py:238
PruneBatch_uncapped(to_delete, upward) == to_delete

PruneBatch(to_delete, upward) == FirstRows(to_delete, PRUNE_LIMIT, upward)

\* protector.py:215-254: the first PRUNE_LIMIT candidates are sent a DETACH
\* DELETE each; one that raises is passed over and not counted
_prune_low_value_entities ==
    /\ ppc = "prune"
    /\ \E upward \in BOOLEAN :
        LET to_delete == PruneCandidates(edges, observations)
            batch == PruneBatch(to_delete, upward)
        IN  \E failed \in SubsetsUpTo(batch, MaxFaults - used.faults) :
             LET gone == batch \ failed
             IN  /\ observations' = [o \in DOMAIN observations \ gone |-> observations[o]]
                 /\ edges' = {e \in edges :
                                 /\ e.src \notin {Node("Observation", o) : o \in gone}
                                 /\ e.dst \notin {Node("Observation", o) : o \in gone}}
                 /\ pruned' = Cardinality(gone)
                 /\ used' = [used EXCEPT !.faults = @ + Cardinality(failed)]
    /\ ppc' = "done"
    /\ pass' = NoPass
    /\ UNCHANGED <<sigVars, checkVars, pathfinder, surfaceVars, events, lifecycleVars, frictionVars, beliefs, insights, sessions,
                   issued, snapshot, prows, merged, preport, lastMerge>>

\* protector.py:45-53: run returns the counts and the report to its caller
ProtectorReturn ==
    /\ ppc = "done"
    /\ ppc' = "idle"
    /\ merged' = 0
    /\ pruned' = 0
    /\ preport' = 0
    /\ marked' = 0
    /\ archived' = 0
    /\ orphans' = {}
    /\ UNCHANGED <<sigVars, checkVars, pathfinder, surfaceVars, events, frictionVars, graphVars, prows, lastMerge, pass, questions>>

(***************************************************************************)
(* Cross-domain connections (librarians/synthesizer.py).  Domains are      *)
(* nodes; an Insight operates in a Domain through an OPERATES_IN edge.  An *)
(* Insight stored by the tools carries the embedding of its content; the   *)
(* ids in noEmbedding are Insights whose embedding property is NULL.  The  *)
(* query returns one row for every (i1, d1, i2, d2) it matches, in the     *)
(* order of the store: by ids, upward or downward.                         *)
(***************************************************************************)
NoSurfaced == [connections |-> 0, raised |-> FALSE]

NoGrouping == [called |-> FALSE, observations |-> << >>, groups |-> << >>]

SurfaceOff == noEmbedding = {} /\ surfaced = NoSurfaced /\ grouping = NoGrouping

DomainsOf(E, i) ==
    {e.dst[2] : e \in {x \in E : /\ x.src = Node("Insight", i)
                                  /\ x.rel = "OPERATES_IN"
                                  /\ x.dst[1] = "Domain"}}

\* (i1)-[:LED_TO|EVOLVED_FROM]-(i2), in either direction
CausalBetween(E, i1, i2) ==
    \E e \in E :
        /\ e.rel \in {"LED_TO", "EVOLVED_FROM"}
        /\ \/ e.src = Node("Insight", i1) /\ e.dst = Node("Insight", i2)
           \/ e.src = Node("Insight", i2) /\ e.dst = Node("Insight", i1)

\* synthesizer.py:225-234, before LIMIT
CrossDomainRows(ins, E) ==
    {r \in UNION {{[i1 |-> a, d1 |-> x, i2 |-> b, d2 |-> y] :
                       x \in DomainsOf(E, a), y \in DomainsOf(E, b)} :
                   a \in DOMAIN ins, b \in DOMAIN ins} :
        /\ r.d1 # r.d2
        /\ ~CausalBetween(E, r.i1, r.i2)}

RowKey(r) ==
    ((r.i1 * (MaxStored + 1) + r.i2) * (MaxDomains + 1) + r.d1) * (MaxDomains + 1) + r.d2

\* the first n rows in the order of the store
FirstOf(rows, n, upward) ==
    LET keys == {RowKey(q) : q \in rows}
        first == FirstRows(keys, n, upward)
    IN  UNION {{r} : r \in {q \in rows : RowKey(q) \in first}}

InsightEmbedding(ins, i) == get_embedding(ins[i].parts[1])

\* synthesizer.py:237-242
ToConnect_anySimilarity(ins, noEmb, r) ==
    /\ r.i1 \notin noEmb
    /\ r.i2 \notin noEmb
ToConnect(ins, noEmb, r) ==
    /\ r.i1 \notin noEmb
    /\ r.i2 \notin noEmb
    /\ cosine_similarity(InsightEmbedding(ins, r.i1), InsightEmbedding(ins, r.i2))
           >= CONNECTION_SIMILARITY

\* synthesizer.py:245-257: the edge one row creates
Connection(r) ==
    [src |-> Node("Insight", r.i1), rel |-> "LED_TO", dst |-> Node("Insight", r.i2),
     contribution |-> "contextual"]

\* synthesizer.py:219-262; the query raises, or the CREATE of the rows in
\* failed raises and is passed over (258-259)
_surface_cross_domain_connections ==
    /\ ppc = "idle"
    /\ \E upward \in BOOLEAN, queryRaises \in BOOLEAN :
        \E rows \in {FirstOf(CrossDomainRows(insights, edges), ROW_LIMIT, upward)} :
        \E pairs_to_connect \in
               {FirstOf({r \in rows : ToConnect(insights, noEmbedding, r)},
                        CONNECTION_LIMIT, upward)} :
        \E failed \in {{}} \cup {{r} : r \in pairs_to_connect} :
            /\ (queryRaises \/ failed # {}) => used.faults < MaxFaults
            /\ queryRaises => failed = {}
            /\ edges' = IF queryRaises THEN edges
                        ELSE edges \cup {Connection(r) : r \in pairs_to_connect \ failed}
            /\ surfaced' =
                   [connections |-> IF queryRaises THEN 0
                                    ELSE Cardinality(pairs_to_connect \ failed),
                    raised |-> queryRaises]
            /\ used' = [used EXCEPT !.faults =
                           @ + IF queryRaises \/ failed # {} THEN 1 ELSE 0]
    /\ UNCHANGED <<sigVars, checkVars, pathfinder, events, lifecycleVars, frictionVars,
                   beliefs, insights, observations, sessions, issued, snapshot,
                   protectorVars, noEmbedding, grouping>>

(***************************************************************************)
(* Pathfinder (librarians/pathfinder.py).  Each task takes the graph and   *)
(* gives back the graph as its statements leave it together with what it   *)
(* found; run passes the graph from one task to the next.  Every statement *)
(* sits in a try of its own: a query in failed raises and its rows are     *)
(* missing from the result.  Domains and Goals are the ends of the         *)
(* OPERATES_IN and SERVES edges; the index-health task is run on a graph   *)
(* in which every entity has an embedding.                                 *)
(***************************************************************************)
PathfinderQueries ==
    {"index", "domains", "hubs", "beliefs", "insights", "clusters", "goals"}

TheGraph ==
    [beliefs |-> beliefs, insights |-> insights, observations |-> observations,
     sessions |-> sessions, edges |-> edges]

GraphNodes(g) ==
    {Node("Belief", b) : b \in DOMAIN g.beliefs}
        \cup {Node("Insight", i) : i \in DOMAIN g.insights}
        \cup {Node("Observation", o) : o \in DOMAIN g.observations}
        \cup {Node("Session", x) : x \in DOMAIN g.sessions}

\* count(r) over (e)-[r]-()
Connections(g, n) ==
    Cardinality({e \in g.edges : e.src = n}) + Cardinality({e \in g.edges : e.dst = n})

\* pathfinder.py:46-95
_check_index_health(g, failed) ==
    [graph |-> g, needs_rebuild |-> {}, report |-> 0]

\* pathfinder.py:97-144
_generate_pathway_map(g, failed) ==
    [graph |-> g,
     hubs |-> IF "hubs" \in failed THEN {}
              ELSE {n \in GraphNodes(g) : Connections(g, n) > HUB_CONNECTIONS},
     report |-> Cardinality(failed \cap {"domains", "hubs"})]

\* pathfinder.py:152-159 and 178-184: the rows of the two queries
NeverInherited(g) ==
    {b \in DOMAIN g.beliefs :
        ~\E e \in g.edges : e.rel = "INHERITED" /\ e.dst = Node("Belief", b)}

NoDownstream(g) ==
    {i \in DOMAIN g.insights :
        ~\E e \in g.edges : /\ e.src = Node("Insight", i)
                            /\ e.rel \in {"LED_TO", "CRYSTALLIZED_INTO", "EVOLVED_FROM"}}

\* pathfinder.py:146-204
_find_underutilized_knowledge_pruning(g, failed, upward) ==
    LET found == IF "beliefs" \in failed THEN {}
                 ELSE FirstRows(NeverInherited(g), UNDERUTILIZED_LIMIT, upward)
    IN  [graph |-> [g EXCEPT !.beliefs = [b \in DOMAIN g.beliefs \ found |-> g.beliefs[b]]],
         underutilized |-> {Node("Belief", b) : b \in found},
         report |-> IF found # {} THEN 1 ELSE 0]
_find_underutilized_knowledge(g, failed, upward) ==
    LET underutilized ==
            (IF "beliefs" \in failed THEN {}
             ELSE {Node("Belief", b) :
                      b \in FirstRows(NeverInherited(g), UNDERUTILIZED_LIMIT, upward)})
            \cup
            (IF "insights" \in failed THEN {}
             ELSE {Node("Insight", i) :
                      i \in FirstRows(NoDownstream(g), UNDERUTILIZED_LIMIT, upward)})
    IN  [graph |-> g, underutilized |-> underutilized,
         report |-> IF underutilized # {} THEN 1 ELSE 0]

\* pathfinder.py:213-214: the entities that operate in Domain d
OperatingIn(g, d) ==
    {e.src : e \in {x \in g.edges : x.rel = "OPERATES_IN" /\ x.dst = Node("Domain", d)}}

\* pathfinder.py:235-236: the rows (s1, s2) of Goal k, s1.id < s2.id
ServingPairs(g, k) ==
    LET serving == {e.src[2] : e \in {x \in g.edges :
                                         /\ x.rel = "SERVES"
                                         /\ x.src[1] = "Session"
                                         /\ x.dst = Node("Goal", k)}}
    IN  {p \in serving \X serving : p[1] < p[2]}

\* pathfinder.py:237: count(DISTINCT s1) + count(DISTINCT s2)
SessionCount(g, k) ==
    Cardinality({p[1] : p \in ServingPairs(g, k)})
        + Cardinality({p[2] : p \in ServingPairs(g, k)})

\* ORDER BY size DESC LIMIT n; rows of equal size all stay when the cut
\* falls between them
LargestClusters(rows, n) ==
    {c \in rows : Cardinality({d \in rows : d.size > c.size}) < n}

\* pathfinder.py:206-258
_identify_semantic_clusters(g, failed) ==
    LET domains == {e.dst[2] : e \in {x \in g.edges : x.rel = "OPERATES_IN"}}
        goals == {e.dst[2] : e \in {x \in g.edges : x.rel = "SERVES"}}
        domainRows ==
            {[cluster_type |-> "domain", name |-> d,
              size |-> Cardinality(OperatingIn(g, d))] :
                 d \in {x \in domains : Cardinality(OperatingIn(g, x)) > DOMAIN_CLUSTER_SIZE}}
        goalRows ==
            {[cluster_type |-> "goal", name |-> k, size |-> SessionCount(g, k)] :
                 k \in {x \in goals : ServingPairs(g, x) # {}
                                       /\ SessionCount(g, x) > GOAL_CLUSTER_SESSIONS}}
    IN  [graph |-> g,
         semantic_clusters |->
             (IF "clusters" \in failed THEN {} ELSE domainRows)
                 \cup (IF "goals" \in failed THEN {}
                       ELSE LargestClusters(goalRows, GOAL_CLUSTER_LIMIT))]

\* pathfinder.py:23-44
PathfinderRun ==
    /\ ppc = "idle"
    /\ \E failed \in SUBSET PathfinderQueries, upward \in BOOLEAN :
        \E t1 \in {_check_index_health(TheGraph, failed)} :
        \E t2 \in {_generate_pathway_map(t1.graph, failed)} :
        \E t3 \in {_find_underutilized_knowledge(t2.graph, failed, upward)} :
        \E t4 \in {_identify_semantic_clusters(t3.graph, failed)} :
            /\ pathfinder' =
                   [success |-> TRUE, needs_rebuild |-> t1.needs_rebuild,
                    hubs |-> t2.hubs, underutilized |-> t3.underutilized,
                    semantic_clusters |-> t4.semantic_clusters,
                    report |-> t1.report + t2.report + t3.report]
            /\ beliefs' = t4.graph.beliefs
            /\ insights' = t4.graph.insights
            /\ observations' = t4.graph.observations
            /\ sessions' = t4.graph.sessions
            /\ edges' = t4.graph.edges
    /\ UNCHANGED <<sigVars, checkVars, events, frictionVars, issued, used, snapshot,
                   protectorVars, lifecycleVars, surfaceVars>>

(***************************************************************************)
(* pattern_check (mcp/patterns.py): the six finding queries, the           *)
(* significance of what they return, and the proposal files.               *)
(*                                                                         *)
(* A finding query returns its rows in the order its ORDER BY fixes and in *)
(* any order where it leaves rows tied or has no ORDER BY.  A proposal     *)
(* file is named by the day, the sequence number and the category.  A      *)
(* write that raises leaves no file when open() refused, or a file cut     *)
(* short when write() did.                                                 *)
(***************************************************************************)
NoCheck ==
    [success |-> FALSE, proposals_generated |-> << >>, generate_proposals |-> FALSE,
     failed_query |-> 0, calls |-> 0]

CheckOff ==
    /\ patterns = EmptyMap
    /\ contradictions = EmptyMap
    /\ today = 1
    /\ proposalFiles = {}
    /\ checkResult = NoCheck

\* the orders of the ids in S in which count never rises
DescendingOrders(S, count) ==
    {o \in Orders(S) : \A i, j \in DOMAIN o : i < j => count[o[i]] >= count[o[j]]}

\* LIMIT 20
Limit(rows) == SubSeq(rows, 1, Min(Len(rows), FINDING_LIMIT))

\* patterns.py:72-98
_find_recurring_friction(fr) ==
    LET count == [f \in DOMAIN fr |-> fr[f].recurrence_count]
        ids == {f \in DOMAIN fr : count[f] >= FRICTION_RECURRENCE_THRESHOLD}
    IN  {Limit([i \in DOMAIN o |->
                   [id |-> o[i], recurrence_count |-> count[o[i]],
                    severity |-> IF count[o[i]] >= HIGH_SEVERITY_COUNT
                                 THEN "high" ELSE "medium"]]) :
            o \in DescendingOrders(ids, count)}

\* patterns.py:105-108, the WHERE clause
\* mutant: the upper bound on occurrence_count left out
IsEmerging_noUpperBound(p) ==
    /\ p.occurrence_count >= PATTERN_EMERGENCE_THRESHOLD
    /\ p.status \in {"NULL", "emerging"}
IsEmerging(p) ==
    /\ p.occurrence_count >= PATTERN_EMERGENCE_THRESHOLD
    /\ p.occurrence_count < PATTERN_CONFIRMATION_THRESHOLD
    /\ p.status \in {"NULL", "emerging"}

\* patterns.py:101-129
_find_emerging_patterns(ps) ==
    LET count == [p \in DOMAIN ps |-> ps[p].occurrence_count]
        ids == {p \in DOMAIN ps : IsEmerging(ps[p])}
    IN  {Limit([i \in DOMAIN o |->
                   [id |-> o[i], occurrence_count |-> count[o[i]],
                    status |-> "emerging"]]) :
            o \in DescendingOrders(ids, count)}

\* patterns.py:132-157
_find_confirmed_patterns(ps) ==
    LET count == [p \in DOMAIN ps |-> ps[p].occurrence_count]
        ids == {p \in DOMAIN ps : count[p] >= PATTERN_CONFIRMATION_THRESHOLD}
    IN  {Limit([i \in DOMAIN o |->
                   [id |-> o[i], occurrence_count |-> count[o[i]],
                    status |-> IF ps[o[i]].status = "NULL"
                               THEN "confirmed" ELSE ps[o[i]].status]]) :
            o \in DescendingOrders(ids, count)}

\* patterns.py:160-183
_find_belief_contradictions(cs) ==
    {Limit([i \in DOMAIN o |-> [id |-> o[i], resolved |-> cs[o[i]].resolved]]) :
        o \in Orders(DOMAIN cs)}

\* patterns.py:186-210, newest first
_find_unresolved_questions(qs) ==
    LET ids == {q \in DOMAIN qs : ~qs[q].resolved}
        youth == [q \in DOMAIN qs |-> 0 - qs[q].age]
    IN  {Limit(o) : o \in DescendingOrders(ids, youth)}

\* patterns.py:213-236
_find_friction_insight_chains(E) ==
    {Limit(o) : o \in Orders({e \in E : e.rel = "FRICTION_LED_TO_INSIGHT"})}

ProposalCategories == <<"recurring-friction", "belief-contradictions", "confirmed-patterns">>

\* patterns.py:315, 324-326, 335: what a category's proposal is written from
Evidence(f, category) ==
    CASE category = "recurring-friction" ->
             SelectSeq(f.recurring_friction, LAMBDA x : x.severity = "high")
      [] category = "belief-contradictions" ->
             SelectSeq(f.belief_contradictions, LAMBDA c : ~c.resolved)
      [] category = "confirmed-patterns" -> f.confirmed_patterns

SetMax(S) == CHOOSE m \in S : \A x \in S : x <= m

\* mutant: the number of the day's files, plus one
_get_next_sequence_count(dir, day) ==
    Cardinality({g \in dir : g.day = day}) + 1
\* patterns.py:560-581
_get_next_sequence(dir, day) ==
    LET sequences == {f.seq : f \in {g \in dir : g.day = day}}
    IN  IF sequences = {} THEN 1 ELSE SetMax(sequences) + 1

\* a file of the directory: its name and whether its content is whole
Stored(file, complete) ==
    [day |-> file.day, seq |-> file.seq, category |-> file.category,
     complete |-> complete]

\* patterns.py:346-421, 424-488, 491-557: one proposal file, on the state
\* st = [dir, proposals]
_create_proposal(st, category, day, outcome) ==
    LET file == [day |-> day, seq |-> _get_next_sequence(st.dir, day),
                 category |-> category]
    IN  CASE outcome = "written" ->
                 [dir |-> st.dir \cup {Stored(file, TRUE)},
                  proposals |-> Append(st.proposals, file)]
          [] outcome = "cut" ->
                 [dir |-> st.dir \cup {Stored(file, FALSE)},
                  proposals |-> st.proposals]
          [] outcome = "refused" -> st

\* patterns.py:314-341, one category
ProposalFor(st, f, category, day, fault) ==
    IF Evidence(f, category) = << >> THEN st
    ELSE _create_proposal(st, category, day,
                          IF fault.category = category THEN fault.outcome ELSE "written")

\* patterns.py:298-343
_generate_evolution_proposals(f, dir, day, fault) ==
    LET st0 == [dir |-> dir, proposals |-> << >>]
        st1 == ProposalFor(st0, f, ProposalCategories[1], day, fault)
        st2 == ProposalFor(st1, f, ProposalCategories[2], day, fault)
    IN  ProposalFor(st2, f, ProposalCategories[3], day, fault)

NoFault == [kind |-> "none", query |-> 0, category |-> "none", outcome |-> "written"]

\* a finding query that raises, or a proposal file whose write raises
CheckFaults ==
    {NoFault}
        \cup {[kind |-> "query", query |-> n, category |-> "none", outcome |-> "written"] :
                 n \in 1..6}
        \cup {[kind |-> "file", query |-> 0, category |-> ProposalCategories[n],
               outcome |-> o] : n \in 1..3, o \in {"refused", "cut"}}

\* patterns.py:39-46, the findings dictionaries the six queries can give
Findings ==
    [recurring_friction : _find_recurring_friction(frictions),
     emerging_patterns : _find_emerging_patterns(patterns),
     confirmed_patterns : _find_confirmed_patterns(patterns),
     belief_contradictions : _find_belief_contradictions(contradictions),
     unresolved_questions : _find_unresolved_questions(questions),
     friction_insight_chains : _find_friction_insight_chains(edges)]

\* mutant: proposals generated whether or not evolution is warranted
ShouldGenerate_unwarranted(generate_proposals, sig) == generate_proposals
\* patterns.py:53
ShouldGenerate(generate_proposals, sig) == generate_proposals /\ sig.warrants_evolution

\* patterns.py:20-69
pattern_check ==
    /\ checkResult.calls < MaxChecks
    /\ \E generate_proposals \in BOOLEAN, fault \in CheckFaults :
        /\ fault.kind # "none" => used.faults < MaxFaults
        /\ used' = [used EXCEPT !.faults = @ + IF fault.kind = "none" THEN 0 ELSE 1]
        /\ IF fault.kind = "query"
           THEN /\ findings' = EmptyFindings
                /\ significance' = NoResult
                /\ proposalFiles' = proposalFiles
                /\ checkResult' =
                       [success |-> FALSE, proposals_generated |-> << >>,
                        generate_proposals |-> generate_proposals,
                        failed_query |-> fault.query,
                        calls |-> checkResult.calls + 1]
           ELSE \E f \in Findings :
                \E sig \in {_calculate_significance(f)} :
                \E st \in {IF ShouldGenerate(generate_proposals, sig)
                            THEN _generate_evolution_proposals(f, proposalFiles, today, fault)
                            ELSE [dir |-> proposalFiles, proposals |-> << >>]} :
                    /\ fault.kind = "file" =>
                          /\ ShouldGenerate(generate_proposals, sig)
                          /\ Evidence(f, fault.category) # << >>
                    /\ findings' = f
                    /\ significance' = sig
                    /\ proposalFiles' = st.dir
                    /\ checkResult' =
                           [success |-> TRUE, proposals_generated |-> st.proposals,
                            generate_proposals |-> generate_proposals,
                            failed_query |-> 0,
                            calls |-> checkResult.calls + 1]
    /\ UNCHANGED <<sigpc, frictionVars, beliefs, insights, observations, sessions, edges,
                   issued, snapshot, protectorVars, lifecycleVars, patterns,
                   contradictions, today, events, pathfinder, surfaceVars>>

\* the clock passes midnight
NextDay ==
    /\ today < MaxDays
    /\ today' = today + 1
    /\ UNCHANGED <<sigVars, frictionVars, graphVars, protectorVars, lifecycleVars,
                   patterns, contradictions, proposalFiles, checkResult, events,
                   pathfinder, surfaceVars>>

(***************************************************************************)
(* Specification of the significance engine.                               *)
(***************************************************************************)
SigOff == findings = EmptyFindings /\ significance = NoResult /\ sigpc = "off" /\ CheckOff

InitSig ==
    /\ findings \in AllFindings
    /\ significance = NoResult
    /\ sigpc = "input"
    /\ TelemetryOff /\ PathfinderOff /\ SurfaceOff
    /\ CheckOff
    /\ FrictionOff
    /\ GraphOff

Calculate ==
    /\ sigpc = "input"
    /\ significance' = _calculate_significance(findings)
    /\ sigpc' = "done"
    /\ UNCHANGED <<findings, frictionVars, graphVars, protectorVars, lifecycleVars, checkVars,
                   events, pathfinder, surfaceVars>>

NextSig == Calculate

SpecSig == InitSig /\ [][NextSig]_vars

(***************************************************************************)
(* Specification of _get_recommendation alone, on every score and flag.    *)
(***************************************************************************)
InitRecommend ==
    /\ findings = EmptyFindings
    /\ \E score \in 0..MaxScore, warrants_evolution \in BOOLEAN :
        significance = [NoResult EXCEPT !.score = score,
                                        !.warrants_evolution = warrants_evolution]
    /\ sigpc = "pair"
    /\ TelemetryOff /\ PathfinderOff /\ SurfaceOff
    /\ CheckOff
    /\ FrictionOff
    /\ GraphOff

Recommend ==
    /\ sigpc = "pair"
    /\ significance' =
           [significance EXCEPT !.recommendation =
               _get_recommendation(significance.score, significance.warrants_evolution)]
    /\ sigpc' = "recommended"
    /\ UNCHANGED <<findings, frictionVars, graphVars, protectorVars, lifecycleVars, checkVars,
                   events, pathfinder, surfaceVars>>

NextRecommend == Recommend

SpecRecommend == InitRecommend /\ [][NextRecommend]_vars

(***************************************************************************)
(* Specification of friction logging, one call at a time.                  *)
(***************************************************************************)
InitFriction == SigOff /\ TelemetryOff /\ PathfinderOff /\ SurfaceOff /\ FrictionOff /\ GraphOff

NextFriction == FrictionLogCall \/ StoreFriction

SpecFriction == InitFriction /\ [][NextFriction]_vars

(***************************************************************************)
(* Specification of friction logging with concurrent callers.              *)
(***************************************************************************)
InitConc ==
    /\ SigOff
    /\ TelemetryOff /\ PathfinderOff /\ SurfaceOff
    /\ frictions = EmptyMap
    /\ flogResult = NoFlogResult
    /\ streak = NoStreak
    /\ callers = [p \in Callers |-> IdleCaller]
    /\ callsMade = 0
    /\ recurringCalls = EmptyMap
    /\ GraphOff

NextConc == \E p \in Callers : FindSimilar(p) \/ WriteIncrement(p) \/ WriteCreate(p)

SpecConc == InitConc /\ [][NextConc]_vars

(***************************************************************************)
(* Specification of the knowledge graph and its maintenance runs.          *)
(***************************************************************************)
Init == SigOff /\ TelemetryOff /\ PathfinderOff /\ SurfaceOff /\ FrictionOff /\ GraphOff

Next ==
    \/ SessionOpen
    \/ SessionClose
    \/ JournalWriteInsight
    \/ JournalWriteObservation
    \/ JournalExtractBeliefs
    \/ JournalExtractInsights
    \/ Tick
    \/ _consolidate_observations
    \/ ProtectorStart
    \/ MergeRow
    \/ InsightQuery
    \/ DedupReturn
    \/ _mark_stale_questions
    \/ _archive_old_sessions
    \/ _find_orphan_nodes
    \/ _prune_low_value_entities
    \/ ProtectorReturn

Spec == Init /\ [][Next]_vars

(***************************************************************************)
(* Specification of Protector runs over a stored graph.  The graph holds   *)
(* two Beliefs of one content, an Insight, a Session that ended long ago,  *)
(* an Observation just young enough to stay, one merged into the Insight,  *)
(* and either a number of stale unmerged Observations or some Questions.   *)
(***************************************************************************)
EligibleCounts == {0, 1, PRUNE_LIMIT - 1, PRUNE_LIMIT, PRUNE_LIMIT + 1, MaxEligible}

QuestionStates ==
    [age : {QUESTION_STALE_DAYS, QUESTION_STALE_DAYS + 1},
     resolved : BOOLEAN,
     urgency : {"NULL", "high", "abandoned"}]

StoredObservation(days) ==
    [content |-> "x", embedding |-> get_embedding("x"), age |-> days]

\* k stale Observations, then a young one and a merged one
StoredObservations(k) ==
    [o \in 1..(k + 2) |->
        IF o = k + 1 THEN StoredObservation(OBSERVATION_MAX_AGE_DAYS)
        ELSE StoredObservation(OBSERVATION_MAX_AGE_DAYS + 1)]

InitProtector ==
    /\ SigOff
    /\ TelemetryOff /\ PathfinderOff /\ SurfaceOff
    /\ FrictionOff
    /\ beliefs = [b \in 1..2 |-> "p"]
    /\ insights = [i \in 1..1 |-> PlainContent("x")]
    /\ sessions = [x \in 1..1 |->
                      [ended |-> TRUE, endedAge |-> SESSION_ARCHIVE_DAYS + 1,
                       archived |-> FALSE]]
    /\ snapshot = [x \in 1..1 |-> {}]
    /\ \E k \in EligibleCounts :
        /\ observations = StoredObservations(k)
        /\ edges = {Edge(Node("Observation", k + 2), "MERGED_INTO", Node("Insight", 1))}
        /\ issued = [Belief |-> 2, Insight |-> 1, Observation |-> k + 2, stored |-> k + 6]
        /\ IF k = 1
           THEN questions \in [1..MaxQuestionNodes -> QuestionStates]
           ELSE questions = EmptyMap
    /\ used = NoUsed
    /\ ppc = "idle"
    /\ prows = {}
    /\ merged = 0
    /\ pruned = 0
    /\ preport = 0
    /\ lastMerge = NoMerge
    /\ pass = NoPass
    /\ marked = 0
    /\ archived = 0
    /\ orphans = {}

NextProtector ==
    \/ ProtectorStart
    \/ MergeRow
    \/ InsightQuery
    \/ DedupReturn
    \/ _mark_stale_questions
    \/ _archive_old_sessions
    \/ _find_orphan_nodes
    \/ _prune_low_value_entities
    \/ ProtectorReturn
    \/ Tick

SpecProtector == InitProtector /\ [][NextProtector]_vars

(***************************************************************************)
(* Specification of Synthesizer runs over stored Observations: four        *)
(* Observations of any texts, three of them older than the age threshold   *)
(* and the fourth either just older or just not.  The store returns rows   *)
(* in any order, so the texts of the first three are laid down in one      *)
(* order only.                                                             *)
(***************************************************************************)
StoredTexts == {"x", "y", "z", "w"}

StoredTextRows ==
    {texts \in [1..MaxStored -> StoredTexts] :
        \A o \in 1..(MaxStored - 2) :
            get_embedding(texts[o]) <= get_embedding(texts[o + 1])}

InitSynth ==
    /\ SigOff
    /\ TelemetryOff /\ PathfinderOff /\ SurfaceOff
    /\ FrictionOff
    /\ beliefs = EmptyMap
    /\ insights = EmptyMap
    /\ sessions = EmptyMap
    /\ snapshot = EmptyMap
    /\ edges = {}
    /\ \E texts \in StoredTextRows,
          last \in {OBSERVATION_AGE_THRESHOLD, OBSERVATION_AGE_THRESHOLD + 1} :
        observations =
            [o \in 1..MaxStored |->
                [content |-> texts[o], embedding |-> get_embedding(texts[o]),
                 age |-> IF o = MaxStored THEN last ELSE OBSERVATION_AGE_THRESHOLD + 1]]
    /\ issued = [Belief |-> 0, Insight |-> 0, Observation |-> MaxStored,
                 stored |-> MaxStored]
    /\ used = NoUsed
    /\ ppc = "idle"
    /\ prows = {}
    /\ merged = 0
    /\ pruned = 0
    /\ preport = 0
    /\ lastMerge = NoMerge
    /\ pass = NoPass
    /\ questions = EmptyMap
    /\ marked = 0
    /\ archived = 0
    /\ orphans = {}

NextSynth ==
    \/ _consolidate_observations
    \/ Tick

SpecSynth == InitSynth /\ [][NextSynth]_vars

(***************************************************************************)
(* Specification of _group_by_similarity called with any list of the       *)
(* stored Observations.                                                    *)
(***************************************************************************)
NextGroup == GroupCall

SpecGroup == InitSynth /\ [][NextGroup]_vars

(***************************************************************************)
(* Specification of pattern_check calls over a stored graph: either up to  *)
(* three Patterns of any count and status, or Frictions of recurrence      *)
(* counts around the thresholds with a CONTRADICTS relationship and a      *)
(* confirmed Pattern.  Rows are stored in one order of their values only;  *)
(* the queries return them in every order they may.                        *)
(***************************************************************************)
PatternStates ==
    [occurrence_count : {1, PATTERN_CONFIRMATION_THRESHOLD - 1,
                         PATTERN_CONFIRMATION_THRESHOLD},
     status : {"NULL", "emerging", "confirmed"},
     origin : {0}]

StatusRank(status) ==
    CASE status = "NULL" -> 0 [] status = "emerging" -> 1 [] status = "confirmed" -> 2

PatternRank(p) == 3 * p.occurrence_count + StatusRank(p.status)

StoredPatterns ==
    UNION {{ps \in [1..n -> PatternStates] :
               \A i \in 1..(n - 1) : PatternRank(ps[i]) <= PatternRank(ps[i + 1])} :
           n \in 0..MaxPatterns}

StoredCounts ==
    {FRICTION_RECURRENCE_THRESHOLD - 1, FRICTION_RECURRENCE_THRESHOLD, HIGH_SEVERITY_COUNT}

StoredFrictions ==
    UNION {{[f \in 1..n |-> [description |-> <<"a">>, recurrence_count |-> counts[f]]] :
               counts \in {c \in [1..n -> StoredCounts] :
                              \A i \in 1..(n - 1) : c[i] <= c[i + 1]}} :
           n \in 0..MaxFrictions}

\* the proposals directory before the first call: empty, or holding one
\* proposal of the first day that was written by hand
StoredProposals ==
    {{}, {Stored([day |-> 1, seq |-> 2, category |-> "manual"], TRUE)}}

InitCheck ==
    /\ findings = EmptyFindings
    /\ significance = NoResult
    /\ sigpc = "off"
    /\ TelemetryOff /\ PathfinderOff /\ SurfaceOff
    /\ \/ /\ patterns \in StoredPatterns
          /\ frictions = EmptyMap
          /\ contradictions = EmptyMap
       \/ /\ patterns \in {EmptyMap,
                            [p \in 1..1 |->
                                [occurrence_count |-> PATTERN_CONFIRMATION_THRESHOLD,
                                 status |-> "confirmed", origin |-> 0]]}
          /\ frictions \in StoredFrictions
          /\ contradictions \in UNION {[1..n -> [resolved : BOOLEAN]] : n \in 0..1}
    /\ recurringCalls = [f \in DOMAIN frictions |-> 0]
    /\ flogResult = NoFlogResult
    /\ streak = NoStreak
    /\ callers = [p \in {} |-> IdleCaller]
    /\ callsMade = 0
    /\ GraphOff
    /\ today = 1
    /\ proposalFiles \in StoredProposals
    /\ checkResult = NoCheck

NextCheck ==
    \/ pattern_check
    \/ NextDay

SpecCheck == InitCheck /\ [][NextCheck]_vars

(***************************************************************************)
(* Specification of Pathfinder runs over a stored graph: up to two Beliefs *)
(* and two Insights, four Sessions, up to two Goals, and any of the        *)
(* relationships the tools store between them.                             *)
(***************************************************************************)
StoredEdges(nb, ni) ==
    {Edge(Node("Session", 1), "INHERITED", Node("Belief", b)) : b \in 1..nb}
        \cup {Edge(Node("Session", 1), "PRODUCED_INSIGHT", Node("Insight", i)) : i \in 1..ni}
        \cup (IF ni = 2
              THEN {Edge(Node("Insight", 1), "LED_TO", Node("Insight", 2))}
              ELSE {})

\* the first n Sessions serve the first Goal; when all of them do, the first
\* three may serve a second Goal
ServesGoal(k, n) ==
    {Edge(Node("Session", x), "SERVES", Node("Goal", k)) : x \in 1..n}

StoredServes ==
    {ServesGoal(1, n) : n \in 0..MaxStored}
        \cup {ServesGoal(1, MaxStored) \cup ServesGoal(2, MaxStored - 1)}

InitPathfinder ==
    /\ SigOff
    /\ TelemetryOff
    /\ FrictionOff
    /\ \E nb \in 0..2, ni \in 0..2 :
        /\ beliefs = [b \in 1..nb |-> "p"]
        /\ insights = [i \in 1..ni |-> PlainContent("x")]
        /\ \E E \in SUBSET StoredEdges(nb, ni), G \in StoredServes : edges = E \cup G
        /\ issued = [Belief |-> nb, Insight |-> ni, Observation |-> 0,
                     stored |-> nb + ni + MaxStored]
    /\ observations = EmptyMap
    /\ sessions = [x \in 1..MaxStored |->
                      [ended |-> FALSE, endedAge |-> 0, archived |-> FALSE]]
    /\ snapshot = [x \in 1..MaxStored |-> {}]
    /\ used = NoUsed
    /\ ppc = "idle"
    /\ prows = {}
    /\ merged = 0
    /\ pruned = 0
    /\ preport = 0
    /\ lastMerge = NoMerge
    /\ pass = NoPass
    /\ questions = EmptyMap
    /\ marked = 0
    /\ archived = 0
    /\ orphans = {}
    /\ pathfinder = NoPathfinder
    /\ SurfaceOff

NextPathfinder == PathfinderRun

SpecPathfinder == InitPathfinder /\ [][NextPathfinder]_vars

(***************************************************************************)
(* Specification of cross-domain surfacing over a stored graph: four       *)
(* Insights, each in a Domain of its own, the first possibly in a second   *)
(* Domain as well; some with similar contents, some without an embedding,  *)
(* some already joined by a causal edge.                                   *)
(***************************************************************************)
SurfaceTexts == <<{"x"}, {"x", "y"}, {"x", "z"}, {"x", "w"}>>

SurfaceDomains ==
    {Edge(Node("Insight", i), "OPERATES_IN", Node("Domain", i)) : i \in 1..MaxStored}
        \cup {Edge(Node("Insight", 1), "OPERATES_IN", Node("Domain", 2))}

SurfaceCausal ==
    {Edge(Node("Insight", 1), "LED_TO", Node("Insight", 2)),
     Edge(Node("Insight", 4), "EVOLVED_FROM", Node("Insight", 3))}

InitSurface ==
    /\ SigOff
    /\ TelemetryOff
    /\ PathfinderOff
    /\ FrictionOff
    /\ beliefs = EmptyMap
    /\ observations = EmptyMap
    /\ sessions = EmptyMap
    /\ snapshot = EmptyMap
    /\ \E texts \in [1..MaxStored -> StoredTexts] :
        /\ \A i \in 1..MaxStored : texts[i] \in SurfaceTexts[i]
        /\ insights = [i \in 1..MaxStored |-> PlainContent(texts[i])]
    /\ \E D \in SUBSET SurfaceDomains, C \in SUBSET SurfaceCausal :
        /\ Cardinality(D) >= MaxStored - 1
        /\ edges = D \cup C
    /\ noEmbedding \in SUBSET {MaxStored}
    /\ surfaced = NoSurfaced
    /\ grouping = NoGrouping
    /\ issued = [Belief |-> 0, Insight |-> MaxStored, Observation |-> 0,
                 stored |-> MaxStored]
    /\ used = NoUsed
    /\ ppc = "idle"
    /\ prows = {}
    /\ merged = 0
    /\ pruned = 0
    /\ preport = 0
    /\ lastMerge = NoMerge
    /\ pass = NoPass
    /\ questions = EmptyMap
    /\ marked = 0
    /\ archived = 0
    /\ orphans = {}

NextSurface == _surface_cross_domain_connections

SpecSurface == InitSurface /\ [][NextSurface]_vars

(***************************************************************************)
(* Specification of the life of Patterns: Frictions that friction_log has  *)
(* counted up to around the thresholds, no Pattern yet; then Patterns are  *)
(* extracted from journals, Frictions recur, and the Synthesizer promotes. *)
(***************************************************************************)
InitPatterns ==
    /\ SigOff
    /\ TelemetryOff /\ PathfinderOff /\ SurfaceOff
    /\ frictions \in StoredFrictions
    /\ recurringCalls = [f \in DOMAIN frictions |-> 0]
    /\ flogResult = NoFlogResult
    /\ streak = NoStreak
    /\ callers = [p \in {} |-> IdleCaller]
    /\ callsMade = 0
    /\ GraphOff

NextPatterns ==
    \/ StorePattern
    \/ FrictionLogCall
    \/ _detect_emerging_patterns

SpecPatterns == InitPatterns /\ [][NextPatterns]_vars

(***************************************************************************)
(* Properties of the significance engine, checked under SpecSig.           *)
(***************************************************************************)
RECURSIVE NumHigh(_)
NumHigh(xs) ==
    IF xs = << >> THEN 0
    ELSE (IF Head(xs).severity = "high" THEN 1 ELSE 0) + NumHigh(Tail(xs))

RECURSIVE NumUnresolved(_)
NumUnresolved(cs) ==
    IF cs = << >> THEN 0
    ELSE (IF Head(cs).resolved THEN 0 ELSE 1) + NumUnresolved(Tail(cs))

\* C1: warrants_evolution is true iff there is a high-severity recurring
\* friction, or two recurring frictions, or an unresolved contradiction, or
\* three emerging patterns; nothing else (score, confirmed patterns,
\* questions, chains) enters.
C1_WarrantsIffDisjunction ==
    sigpc = "done" =>
        (significance.warrants_evolution <=>
            \/ NumHigh(findings.recurring_friction) >= 1
            \/ Len(findings.recurring_friction) >= 2
            \/ NumUnresolved(findings.belief_contradictions) >= 1
            \/ Len(findings.emerging_patterns) >= 3)

\* the warrant is refused although confirmed patterns, questions and chains
\* are all present and two patterns are emerging
C1_Witness ==
    /\ sigpc = "done"
    /\ ~significance.warrants_evolution
    /\ Len(findings.emerging_patterns) = 2
    /\ Len(findings.confirmed_patterns) = MaxConfirmed
    /\ Len(findings.unresolved_questions) = MaxQuestions
    /\ Len(findings.friction_insight_chains) = MaxChains
    /\ Len(findings.recurring_friction) = 1

\* C2: the score is the sum of the six capped category terms; chains add
\* nothing and empty findings score 0.
C2_ScoreFormula ==
    sigpc = "done" =>
        /\ significance.score =
              Min(15 * NumHigh(findings.recurring_friction), 30)
            + Min(5 * Len(findings.recurring_friction), 20)
            + Min(5 * Len(findings.emerging_patterns), 15)
            + Min(3 * Len(findings.confirmed_patterns), 10)
            + Min(10 * NumUnresolved(findings.belief_contradictions), 20)
            + Min(2 * Len(findings.unresolved_questions), 5)
        /\ (findings = EmptyFindings => significance.score = 0)

\* every category is past its cap: 30 + 20 + 15 + 10 + 20 + 5
C2_Witness ==
    /\ sigpc = "done"
    /\ significance.score = 100
    /\ Len(findings.confirmed_patterns) = 4
    /\ Len(findings.friction_insight_chains) = 1

OneHighFriction ==
    [EmptyFindings EXCEPT !.recurring_friction = <<[severity |-> "high"]>>]

\* C3 as stated: one high-severity friction and nothing else warrants
\* evolution with a score of 15.
C3_Original_Score15 ==
    (sigpc = "done" /\ findings = OneHighFriction) =>
        /\ significance.warrants_evolution
        /\ significance.score = 15

\* C3 amended: one high-severity friction and nothing else warrants evolution
\* with a score of 20 (15 for the high severity plus 5 because the same item
\* is a recurring friction), below the bands at 30 and 50, so the
\* recommendation is REVIEW.
C3_OneHighWarrantsAtScore20 ==
    (sigpc = "done" /\ findings = OneHighFriction) =>
        /\ significance.warrants_evolution
        /\ significance.score = 20
        /\ significance.score < 30
        /\ significance.recommendation = "REVIEW"

C3_Witness == sigpc = "done" /\ findings = OneHighFriction

C6_NoLostIncrement ==
    \A f \in DOMAIN frictions :
        frictions[f].recurrence_count = 1 + recurringCalls[f]


(***************************************************************************)
(* Properties of the knowledge graph, checked under Spec.                  *)
(***************************************************************************)
InheritedBy(session_id) ==
    {e.dst : e \in {x \in edges : x.src = Node("Session", session_id)
                                  /\ x.rel = "INHERITED"}}

\* C5: at every state after session_open(S) has returned, the entities S is
\* linked to by INHERITED edges are exactly the inheritable entities that
\* existed when S was opened; no later operation adds, removes or retargets
\* them.
C5_InheritedIsSnapshot ==
    \A session_id \in DOMAIN sessions : InheritedBy(session_id) = snapshot[session_id]

MergeKeep == Node(lastMerge.kind, lastMerge.keep)
MergeRemove == Node(lastMerge.kind, lastMerge.remove)
AfterMerge(n) == IF n = MergeRemove THEN MergeKeep ELSE n

\* C7: after _merge_entities(A, B) on two existing entities, every edge
\* that left or entered B leaves or enters A with the same type and the
\* same other end, B no longer exists and no edge references B.
C7_MergePreservesEdges ==
    (lastMerge.called /\ lastMerge.existed) =>
        /\ lastMerge.remove \notin DOMAIN Entities(lastMerge.kind)
        /\ ~HasEdges(edges, MergeRemove)
        /\ \A e \in lastMerge.edgesBefore :
               Edge(AfterMerge(e.src), e.rel, AfterMerge(e.dst)) \in edges

\* C8: when a statement of _merge_entities raises, the graph is left as it
\* was before the call (no partial redirection) and the merge is not
\* counted as a successful merge.
C8_MergeAtomic ==
    (lastMerge.called /\ lastMerge.raised) =>
        /\ edges = lastMerge.edgesBefore
        /\ merged = lastMerge.mergedBefore

\* a failed merge leaves no partial redirection (first half of C8)
MergeNoPartialRedirect ==
    (lastMerge.called /\ lastMerge.raised) => edges = lastMerge.edgesBefore

NoDuplicates(fn) == \A a, b \in DOMAIN fn : a # b => fn[a] # fn[b]

SmallestSurvive(before, after) ==
    \A a \in DOMAIN before :
        a \in DOMAIN after <=> (\A b \in DOMAIN before : before[b] = before[a] => a <= b)

C10_MergedObservationKept ==
    [][\A o \in DOMAIN observations :
           Merged(edges, o) => o \in DOMAIN observations']_vars

\* a Protector run has pruned and has left a merged Observation that is
\* older than the pruning age
C10_Witness ==
    /\ ppc = "done"
    /\ \E o \in DOMAIN observations :
        /\ Merged(edges, o)
        /\ observations[o].age > OBSERVATION_MAX_AGE_DAYS

(***************************************************************************)
(* Properties of Protector runs, checked under SpecProtector.              *)
(***************************************************************************)
PruneStep == ppc = "prune" /\ ppc' = "done"

\* eligible for pruning: older than 60 days, never merged or crystallized
Eligible ==
    {o \in DOMAIN observations :
        /\ observations[o].age > OBSERVATION_MAX_AGE_DAYS
        /\ ~\E e \in edges : /\ e.src = Node("Observation", o)
                             /\ e.rel \in {"MERGED_INTO", "CRYSTALLIZED_INTO"}}

PrunedNow == DOMAIN observations \ DOMAIN observations'
RaisedNow == used'.faults - used.faults

MarkStep == ppc = "stale" /\ ppc' = "archive"

\* unresolved, raised before now - 30 days, not already abandoned
ShouldAbandon(q) ==
    /\ ~questions[q].resolved
    /\ questions[q].age > QUESTION_STALE_DAYS
    /\ questions[q].urgency # "abandoned"

MarksExactly ==
    /\ \A q \in DOMAIN questions :
           questions'[q] = IF ShouldAbandon(q)
                           THEN [questions[q] EXCEPT !.urgency = "abandoned"]
                           ELSE questions[q]
    /\ DOMAIN questions' = DOMAIN questions
    /\ marked' = Cardinality({q \in DOMAIN questions : ShouldAbandon(q)})

\* C12: a run of _mark_stale_questions sets urgency = 'abandoned' on
\* exactly the Questions that are unresolved, raised before now - 30 days
\* and not already abandoned, returns their number and changes no other
\* Question; after it the statement matches no Question, so running it
\* again at the same cutoff marks 0 and leaves the Questions unchanged.  (A
\* run whose statement the store refuses marks nothing and changes nothing.)
C12_MarkingIdempotent ==
    [][MarkStep =>
          IF preport' = preport
          THEN /\ MarksExactly
               /\ StaleQuestions(questions') = {}
               /\ MarkStale(questions') = questions'
          ELSE /\ questions' = questions
               /\ marked' = 0]_vars

\* a run has marked a Question and has left a resolved one of the same age
C12_Witness ==
    /\ ppc = "archive"
    /\ marked >= 1
    /\ \E q \in DOMAIN questions :
        /\ questions[q].resolved
        /\ questions[q].age > QUESTION_STALE_DAYS
        /\ questions[q].urgency # "abandoned"

(***************************************************************************)
(* Consolidation (SpecSynth).                                              *)
(***************************************************************************)
ConsolidateStep == used'.ticks = used.ticks

Similar(a, b) ==
    cosine_similarity(observations[a].embedding, observations[b].embedding)
        >= SIMILARITY_THRESHOLD

\* the sets G of old Observations that are pairwise similar while every
\* other old Observation is below the threshold to every member
SeparateGroups ==
    {G \in SUBSET OldObservations :
        /\ Cardinality(G) >= 2
        /\ \A a, b \in G : Similar(a, b)
        /\ \A a \in G, o \in OldObservations \ G : ~Similar(a, o)}

NewInsights == DOMAIN insights' \ DOMAIN insights
NewEdges == edges' \ edges
MergedSources(i) ==
    {o \in DOMAIN observations :
        Edge(Node("Observation", o), "MERGED_INTO", Node("Insight", i)) \in NewEdges}
InsightsOf(G) == {i \in NewInsights : MergedSources(i) \cap G # {}}

FindingNames ==
    <<"recurring_friction", "emerging_patterns", "confirmed_patterns",
      "belief_contradictions", "unresolved_questions", "friction_insight_chains">>

\* C14: when exactly one of the six finding queries raises, pattern_check
\* still returns success, with the other five findings as their queries
\* give them and the failed one as an empty list.
C14_QueriesIsolated ==
    checkResult.failed_query # 0 =>
        /\ checkResult.success
        /\ \E f \in Findings :
              \A n \in DOMAIN FindingNames :
                  findings[FindingNames[n]] =
                      IF n = checkResult.failed_query THEN << >>
                      ELSE f[FindingNames[n]]

CheckStep == checkResult'.calls = checkResult.calls + 1
NewFiles == proposalFiles' \ proposalFiles
Listed == {checkResult'.proposals_generated[i] :
              i \in DOMAIN checkResult'.proposals_generated}
FileName(f) == [day |-> f.day, seq |-> f.seq, category |-> f.category]

ReturnedIn(rows, p) == \E i \in DOMAIN rows : rows[i].id = p

C16_ConfirmedAtThreshold ==
    \A p \in DOMAIN patterns :
        patterns[p].occurrence_count >= PATTERN_CONFIRMATION_THRESHOLD =>
            patterns[p].status # "emerging"

(***************************************************************************)
(* The recommendation (SpecRecommend).                                     *)
(***************************************************************************)
\* C18: for every score and flag _get_recommendation returns exactly one
\* of the five bands: URGENT from score 50, else ATTENTION from score 30,
\* else REVIEW when warrants_evolution is true, else MONITOR from score 15,
\* else STABLE; score 0 with warrants_evolution false gives STABLE.
C18_RecommendationBands ==
    sigpc = "recommended" =>
        LET score == significance.score
            warrants == significance.warrants_evolution
            band == significance.recommendation
        IN  /\ band \in {"URGENT", "ATTENTION", "REVIEW", "MONITOR", "STABLE"}
            /\ band = "URGENT" <=> score >= 50
            /\ band = "ATTENTION" <=> (score >= 30 /\ score < 50)
            /\ band = "REVIEW" <=> (score < 30 /\ warrants)
            /\ band = "MONITOR" <=> (score >= 15 /\ score < 30 /\ ~warrants)
            /\ band = "STABLE" <=> (score < 15 /\ ~warrants)
            /\ (score = 0 /\ ~warrants) => band = "STABLE"

\* the score of 50 with the flag set, where the score band comes first
C18_Witness ==
    /\ sigpc = "recommended"
    /\ significance.score = 50
    /\ significance.warrants_evolution
    /\ significance.recommendation = "URGENT"

(***************************************************************************)
(* Telemetry (SpecPatterns).                                               *)
(***************************************************************************)
KnowledgeNodes ==
    {Node("Friction", f) : f \in DOMAIN frictions}
        \cup {Node("Pattern", p) : p \in DOMAIN patterns}

KnowledgeNodesAfter ==
    {Node("Friction", f) : f \in DOMAIN frictions'}
        \cup {Node("Pattern", p) : p \in DOMAIN patterns'}

Emitted(ev, node) == IF node \in DOMAIN ev THEN ev[node] ELSE 0

\* C19: a step of friction_log, journal_extract or the Synthesizer emits
\* exactly one knowledge event for every entity it creates, carrying that
\* entity's id, and emits no other knowledge event.
C19_OneEventPerCreation ==
    [][\A node \in KnowledgeNodesAfter \cup DOMAIN events' :
          Emitted(events', node) - Emitted(events, node) =
              IF node \in KnowledgeNodesAfter \ KnowledgeNodes THEN 1 ELSE 0]_vars

(***************************************************************************)
(* Pathfinder (SpecPathfinder).                                            *)
(***************************************************************************)
\* C20: a Pathfinder run leaves the graph as it was, whatever the graph
\* holds and whichever of its queries raise: no node, relationship or
\* property is created, updated or deleted.
C20_PathfinderReadOnly ==
    [][pathfinder'.success =>
          UNCHANGED <<beliefs, insights, observations, sessions, edges, patterns,
                      frictions, questions, contradictions>>]_vars

\* a run that reported a Belief no session inherited, with a query raising
C20_Witness ==
    /\ pathfinder.success
    /\ pathfinder.report >= 2
    /\ \E b \in DOMAIN beliefs : Node("Belief", b) \in pathfinder.underutilized

(***************************************************************************)
(* Pattern emergence (SpecPatterns).                                       *)
(***************************************************************************)
PatternsFrom(f) == {p \in DOMAIN patterns : patterns[p].origin = f}

\* C21: over any number of Synthesizer runs, runs in which the Pattern is
\* created and the linking statement raises included, each Friction is the
\* origin of at most one Pattern.
C21_OnePatternPerFriction ==
    \A f \in DOMAIN frictions : Cardinality(PatternsFrom(f)) <= 1

(***************************************************************************)
(* Best-effort writes of the Synthesizer (SpecSynth).                      *)
(***************************************************************************)
\* C22: when one write of a consolidation run raises (the CREATE of one
\* group's Insight or of one MERGED_INTO edge), the remaining groups are
\* still processed: every separate group but at most the one whose write
\* raised gets its Insight.
C22_BestEffortPerItem ==
    [][(ConsolidateStep /\ used'.faults = used.faults + 1) =>
          Cardinality(NewInsights) >= Cardinality(SeparateGroups) - 1]_vars

(***************************************************************************)
(* Cross-domain connections (SpecSurface).                                 *)
(***************************************************************************)
Ids(nodes) == {n[2] : n \in nodes}

\* C23: every edge a surfacing run creates is a LED_TO edge tagged
\* contribution 'contextual' between Insights that operate in different
\* Domains, had no LED_TO or EVOLVED_FROM edge between them in either
\* direction before the run, both carry an embedding and have cosine
\* similarity >= 0.8; the run creates at most 10 edges and changes nothing
\* else in the graph.
C23_ConnectionsQualify ==
    [][/\ edges \subseteq edges'
       /\ insights' = insights
       /\ Cardinality(NewEdges) <= CONNECTION_LIMIT
       /\ surfaced'.connections <= CONNECTION_LIMIT
       /\ \A e \in NewEdges :
             /\ e.rel = "LED_TO"
             /\ e.contribution = "contextual"
             /\ e.src \in InsightNodes /\ e.dst \in InsightNodes
             /\ \E d1 \in DomainsOf(edges, e.src[2]), d2 \in DomainsOf(edges, e.dst[2]) :
                    d1 # d2
             /\ ~CausalBetween(edges, e.src[2], e.dst[2])
             /\ Ids({e.src, e.dst}) \cap noEmbedding = {}
             /\ cosine_similarity(InsightEmbedding(insights, e.src[2]),
                                  InsightEmbedding(insights, e.dst[2]))
                    >= CONNECTION_SIMILARITY]_vars

\* a run that created ten edges and left a qualifying pair unconnected, the
\* contents of the Insights being similar without being all the same
C23_Witness ==
    /\ surfaced.connections = CONNECTION_LIMIT
    /\ \E r \in CrossDomainRows(insights, edges) : ToConnect(insights, noEmbedding, r)
    /\ \E i \in DOMAIN insights : insights[i].parts[1] # "x"

\* C27: one surfacing run creates at most one LED_TO edge for an unordered
\* pair of distinct Insights: never both i1 -> i2 and i2 -> i1, and never
\* an edge from an Insight to itself.
C27_OneEdgePerPair ==
    [][\A e \in NewEdges :
          /\ e.src # e.dst
          /\ ~\E x \in NewEdges : x.src = e.dst /\ x.dst = e.src]_vars

(***************************************************************************)
(* Greedy grouping (SpecGroup).                                            *)
(***************************************************************************)
\* the position of the seed that claims position k of the list xs: the first
\* earlier position that is itself a seed and whose Observation is within
\* the threshold of the one at k; k itself when there is none
RECURSIVE SeedOf(_, _)
SeedOf(xs, k) ==
    LET seeds == {s \in 1..(k - 1) : SeedOf(xs, s) = s /\ SimilarToSeed(xs[s], xs[k])}
    IN  IF seeds = {} THEN k ELSE CHOOSE s \in seeds : \A t \in seeds : s <= t

Claimed(xs, s) == {k \in 1..Len(xs) : SeedOf(xs, k) = s}

\* the members of the seed at position s, in input order
MembersOf(xs, s) ==
    SelectSeq([k \in 1..Len(xs) |-> k], LAMBDA k : k \in Claimed(xs, s))

SeedsWithCompany(xs) ==
    SelectSeq([k \in 1..Len(xs) |-> k],
              LAMBDA s : SeedOf(xs, s) = s /\ Cardinality(Claimed(xs, s)) > 1)

IsChain(xs) ==
    /\ Len(xs) = 3
    /\ SimilarToSeed(xs[1], xs[2])
    /\ SimilarToSeed(xs[2], xs[3])
    /\ ~SimilarToSeed(xs[1], xs[3])

\* C24: _group_by_similarity returns, in the order of their seeds, the groups
\* of the seeds that claimed at least one later Observation, a seed being the
\* first Observation no earlier seed claimed and claiming every later
\* unclaimed Observation within 0.85 of the seed itself; every Observation
\* is in at most one group, no group is a singleton, and the chain A~B, B~C,
\* A not~C in the order A, B, C gives the one group <<A, B>>.
C24_GreedyGrouping ==
    grouping.called =>
        LET xs == grouping.observations
            gs == grouping.groups
            seeds == SeedsWithCompany(xs)
        IN  /\ Len(gs) = Len(seeds)
            /\ \A n \in DOMAIN gs :
                   gs[n] = [m \in DOMAIN MembersOf(xs, seeds[n]) |->
                               xs[MembersOf(xs, seeds[n])[m]]]
            /\ \A n \in DOMAIN gs : Len(gs[n]) >= 2
            /\ \A o \in Range(xs) :
                   Cardinality({nm \in (DOMAIN gs) \X (1..MaxStored) :
                                   /\ nm[2] \in DOMAIN gs[nm[1]]
                                   /\ gs[nm[1]][nm[2]] = o}) <= 1
            /\ IsChain(xs) => gs = <<SubSeq(xs, 1, 2)>>

\* the chain: three Observations in the order A, B, C with B within the
\* threshold of both and A not within it of C
C24_Witness ==
    /\ grouping.called
    /\ IsChain(grouping.observations)
    /\ grouping.groups = <<SubSeq(grouping.observations, 1, 2)>>

(***************************************************************************)
(* Proposal sequence numbers (SpecCheck).                                  *)
(***************************************************************************)
SequencesOf(dir, day) == {f.seq : f \in {g \in dir : g.day = day}}
LastSequence(dir, day) ==
    IF SequencesOf(dir, day) = {} THEN 0 ELSE SetMax(SequencesOf(dir, day))

\* C25: the files a pattern_check call creates carry the day of the call and
\* the sequence numbers that follow the largest one among the files of that
\* day that existed (1 when there was none), without a gap; the call
\* returns them in rising order of sequence; no existing file is removed or
\* replaced; so the files of one day always have pairwise distinct sequence
\* numbers.
C25_SequencePerDay ==
    [][CheckStep =>
          /\ proposalFiles \subseteq proposalFiles'
          /\ \A a \in NewFiles : a.day = today
          /\ {a.seq : a \in NewFiles} =
                 (LastSequence(proposalFiles, today) + 1) ..
                 (LastSequence(proposalFiles, today) + Cardinality(NewFiles))
          /\ \A n \in 1..(Len(checkResult'.proposals_generated) - 1) :
                 checkResult'.proposals_generated[n].seq
                     < checkResult'.proposals_generated[n + 1].seq
          /\ \A a, b \in proposalFiles' : (a.day = b.day /\ a.seq = b.seq) => a = b]_vars

\* two calls on the first day beside a proposal written by hand with number
\* 2, each writing three files: the files of the day are numbered 2 to 8
C25_Witness ==
    /\ checkResult.calls = 2
    /\ Len(checkResult.proposals_generated) = 3
    /\ SequencesOf(proposalFiles, 1) = 2..8
    /\ Cardinality(proposalFiles) = 7

(***************************************************************************)
(* Consolidation run again (SpecSynth).                                    *)
(***************************************************************************)
MergedIntoFrom(o) ==
    {e \in edges : e.src = Node("Observation", o) /\ e.rel = "MERGED_INTO"}

\* C26: after any number of consolidation runs every Observation has at
\* most one MERGED_INTO edge: a run over Observations that are already
\* merged creates no further Insight and no further edge.
C26_ConsolidationIdempotent ==
    \A o \in DOMAIN observations : Cardinality(MergedIntoFrom(o)) <= 1

(***************************************************************************)
(* The count of merged duplicates (Spec).                                  *)
(***************************************************************************)
RemovedInPass ==
    Cardinality(DOMAIN pass.beliefs \ DOMAIN beliefs)
        + Cardinality(DOMAIN pass.insights \ DOMAIN insights)

\* C28: when _deduplicate_entities has returned, the count it returns as
\* duplicates_merged is the number of Beliefs and Insights the run removed
\* from the graph.
C28_MergedCountsRemoved ==
    ppc = "stale" => merged = RemovedInPass

(***************************************************************************)
(* Recommendation against warrants_evolution (SpecSig).                    *)
(***************************************************************************)
\* C29 as stated: whenever the result of _calculate_significance advises an
\* Evolution proposal (URGENT or ATTENTION, score >= 30), warrants_evolution
\* is true.
C29_Original_AdviceImpliesWarrant ==
    sigpc = "done" =>
        ((significance.score >= 30
            \/ significance.recommendation \in {"URGENT", "ATTENTION"})
         => significance.warrants_evolution)

\* C29 amended: a score above 30 comes with warrants_evolution true, and so
\* does URGENT; ATTENTION comes with warrants_evolution false for a score of
\* exactly 30 only, which is the largest score findings without a warrant
\* can have: one recurring friction that is not of high severity, two
\* emerging patterns, four or more confirmed patterns, three or more
\* unresolved questions and no unresolved contradiction.
C29_WarrantAboveThirty ==
    sigpc = "done" =>
        /\ significance.score > 30 => significance.warrants_evolution
        /\ significance.recommendation = "URGENT" => significance.warrants_evolution
        /\ (significance.recommendation = "ATTENTION" /\ ~significance.warrants_evolution)
              <=> (/\ significance.recurring_friction_count = 1
                   /\ significance.high_severity_friction = 0
                   /\ significance.emerging_patterns_count = 2
                   /\ significance.confirmed_patterns_count >= 4
                   /\ significance.unresolved_questions_count >= 3
                   /\ significance.unresolved_contradictions = 0)
        /\ (significance.recommendation = "ATTENTION" /\ ~significance.warrants_evolution)
              => significance.score = 30

\* a result that advises a proposal without a warrant, resolved
\* contradictions among the findings
C29_Witness ==
    /\ sigpc = "done"
    /\ significance.recommendation = "ATTENTION"
    /\ ~significance.warrants_evolution
    /\ significance.score = 30
    /\ Len(findings.belief_contradictions) > 0

(***************************************************************************)
(* Goal clusters (SpecPathfinder).                                         *)
(***************************************************************************)
Serving(k) ==
    {e.src : e \in {x \in edges : x.rel = "SERVES" /\ x.dst = Node("Goal", k)}}

\* C30: every goal cluster a Pathfinder run reports is a Goal served by more
\* than 2 distinct Sessions, and its size is the number of distinct Sessions
\* that serve the Goal.
C30_GoalClusterSize ==
    pathfinder.success =>
        \A c \in pathfinder.semantic_clusters :
            c.cluster_type = "goal" =>
                /\ Cardinality(Serving(c.name)) > GOAL_CLUSTER_SESSIONS
                /\ c.size = Cardinality(Serving(c.name))

====
